---- MODULE Spec2Model ----
(***************************************************************************)
(* Model of the metric-watch engine of rustinity_bot: the three last-value *)
(* caches, the snapshot log, the watch registry, the tracking flag and the *)
(* poll cycle (post_walobots_update) that threads leaderboard rows through *)
(* the spike detector, the clan watch and the player watch.                *)
(*                                                                         *)
(* Python strings are tuples of one-character strings, so that str.lower   *)
(* and str.strip are computed.  A JSON value is a record [t, v]: a number, *)
(* a decimal string, a non-numeric string or null.  A dict is the sequence *)
(* of its <<key, value>> pairs in insertion order.                         *)
(***************************************************************************)
EXTENDS Integers, Sequences, FiniteSets, TLC

\* ------------------------------------------------------------------ bounds
\* Upper bound on the number of poll cycles the timer starts.
MaxCycles == 2
\* Upper bound on the clan leaderboards that come back with rows, over all cycles.
MaxFetches == 2
\* Upper bound on the poll cycles of the three-cycle scenario.
ScenarioCycles == 3
\* Upper bound on the poll cycles that run among the registry commands.
RegistryCycles == 1
\* Upper bound on the poll cycles that feed the trend embed.
TrendCycles == 3
\* Upper bound on the clock, in seconds.
MaxClock == 43210
\* Poll cycles of the specification of the faults.
FaultCycles == 1
\* Poll cycles that on_ready and the loop start.
StartupCycles == 2
\* Poll cycles that run among the restarts.
RestartCycles == 2
\* Poll cycles of a run under the scheduling of the event loop.
ProgressCycles == 1
\* Entries of a leaderboard response.
MaxEntries == 3
\* Calls of post_walobots_update that find a channel, and calls that find
\* none.
ChannelCycles == 2
\* Poll cycles over the metrics of one group.
GroupCycles == 2
\* Poll cycles of a run with interruptions of the watching.
InterruptCycles == 2
\* Consumer calls of overlapping poll cycles.
OverlapCalls == 2
\* Observations of one consumer call.
OverlapLen == 3

\* ----------------------------------------------------------------- strings
\* str.lower() on the characters the model uses.
LowerChar(c) ==
  CASE c = "W" -> "w"
    [] c = "A" -> "a"
    [] c = "Z" -> "z"
    [] c = "E" -> "e"
    [] OTHER -> c

lower(s) == [i \in 1..Len(s) |-> LowerChar(s[i])]

RECURSIVE lstrip(_)
lstrip(s) ==
  IF s = <<>> THEN s
  ELSE IF Head(s) = " " THEN lstrip(Tail(s)) ELSE s

RECURSIVE rstrip(_)
rstrip(s) ==
  IF s = <<>> THEN s
  ELSE IF s[Len(s)] = " " THEN rstrip(SubSeq(s, 1, Len(s) - 1)) ELSE s

\* str.strip()
strip(s) == rstrip(lstrip(s))

\* ------------------------------------------------------------- JSON values
None == [t |-> "none", v |-> 0]
\* a string that is not a number, such as "n/a"
Junk == [t |-> "str", v |-> 0]
Num(n) == [t |-> "num", v |-> n]
\* the decimal string of n, such as "3"
NumStr(n) == [t |-> "numstr", v |-> n]

\* A conversion that yields 0 where float() raises.
float_zero_on_error(raw) ==
  IF raw.t \in {"num", "numstr"}
  THEN [ok |-> TRUE, val |-> raw.v]
  ELSE [ok |-> TRUE, val |-> 0]

\* float(x) inside try/except (TypeError, ValueError): ok is FALSE when the
\* conversion raises.  The numbers of the model are finite.
float(raw) ==
  IF raw.t \in {"num", "numstr"}
  THEN [ok |-> TRUE, val |-> raw.v]
  ELSE [ok |-> FALSE, val |-> 0]

\* dict.get(key): None when the key is absent.
RECURSIVE dict_get(_, _)
dict_get(d, k) ==
  IF d = <<>> THEN None
  ELSE IF Head(d)[1] = k THEN Head(d)[2] ELSE dict_get(Tail(d), k)

\* dict[key] = value on a cache (a function from the stored keys).
Put(cache, k, val) ==
  [x \in (DOMAIN cache) \cup {k} |-> IF x = k THEN val ELSE cache[x]]

EmptyCache == [x \in {} |-> 0]

\* ----------------------------------------------------------- configuration
\* Spike thresholds per metric.
ALERT_THRESHOLDS ==
  [m \in {"gathered_sulfur_ore", "looted_hackable", "boom_rocket_basic",
          "looted_bradley_crates"} |->
     CASE m = "gathered_sulfur_ore" -> 5000
       [] m = "looted_hackable" -> 2
       [] m = "boom_rocket_basic" -> 50
       [] m = "looted_bradley_crates" -> 2]

\* how many clans are logged per metric
TREND_TOP_N == 5

\* The metric definitions the model polls: two of the entries of METRICS,
\* one with a spike threshold and one without.
METRICS ==
  [m \in {"looted_hackable", "looted_crates"} |->
     CASE m = "looted_hackable" ->
            [group |-> "looted", sortBy |-> "looted_hackablecrate"]
       [] m = "looted_crates" ->
            [group |-> "looted", sortBy |-> "looted_crate"]]

\* settings.clan_name: the bot's own clan, exempt from spike alerts.
settings_clan_name == <<"W", "a">>

\* settings.player_clan_overrides: steam id -> clan label.
settings_player_clan_overrides ==
  [s \in {<<"7", "1">>} |-> <<"R">>]

\* settings.watch_clan_names / settings.watch_player_ids seed the registry.
settings_watch_clan_names == {<<"z", "e">>}
settings_watch_player_ids == {<<"7", "2">>}

\* -------------------------------------------------------------------- rows
\* A leaderboard row.  A missing name, clanName or steamId is the empty
\* string, a missing rank is None, missing stats are the empty dict: what
\* row.get() with its defaults makes of them.  A rank that is present is an
\* integer or its decimal string.
Row(name, clanName, steamId, rank, stats) ==
  [name |-> name, clanName |-> clanName, steamId |-> steamId,
   rank |-> rank, stats |-> stats]

\* str(row.get("name") or row.get("clanName") or "").strip()
row_clan_name(row) ==
  strip(IF row.name # <<>> THEN row.name ELSE row.clanName)

\* str(row.get("steamId", "")).strip()
row_steam_id(row) == strip(row.steamId)

\* ------------------------------------------------------------ alert sink
\* await alert_channel.send(msg): the n-th send of a consumer call raises
\* iff n is in fail.
send_ok(n, fail) == n \notin fail

\* One observation of a cache key, as a consumer call leaves it behind:
\* the value found in the cache (had, last), the value observed, the delta,
\* whether a send was attempted and whether it was delivered.
Event(key, has, last_val, current_val, delta, due, ok, shown, label) ==
  [key |-> key, had |-> has, last |-> last_val, cur |-> current_val,
   delta |-> delta, attempted |-> due, delivered |-> due /\ ok,
   shown |-> shown, label |-> label]

\* The running result of a consumer call: the cache, the snapshots appended,
\* the observations made, the alerts_sent counter, the number of sends
\* attempted, and whether an exception left the call.
Acc(cache) ==
  [cache |-> cache, snaps |-> <<>>, events |-> <<>>,
   alerts_sent |-> 0, attempts |-> 0, raised |-> FALSE]

\* An observation that keeps the stored value when the new one is lower.
Observe_keep_peak(acc, key, current_val, delta, due, caught, fail, shown, label) ==
  LET has == key \in DOMAIN acc.cache
      ok == send_ok(acc.attempts + 1, fail)
  IN [acc EXCEPT
        !.cache = IF has /\ acc.cache[key] > current_val THEN @
                  ELSE Put(@, key, current_val),
        !.events = Append(@, Event(key, has,
                                   IF has THEN acc.cache[key] ELSE 0,
                                   current_val, delta, due, ok, shown, label)),
        !.attempts = IF due THEN @ + 1 ELSE @,
        !.alerts_sent = IF due /\ ok THEN @ + 1 ELSE @,
        !.raised = due /\ ~ok /\ ~caught]

\* An observation that stores the value only once its alert, when one is
\* due, was delivered.
Observe_store_when_sent(acc, key, current_val, delta, due, caught, fail, shown, label) ==
  LET has == key \in DOMAIN acc.cache
      ok == send_ok(acc.attempts + 1, fail)
  IN [acc EXCEPT
        !.cache = IF due /\ ~ok THEN @ ELSE Put(@, key, current_val),
        !.events = Append(@, Event(key, has,
                                   IF has THEN acc.cache[key] ELSE 0,
                                   current_val, delta, due, ok, shown, label)),
        !.attempts = IF due THEN @ + 1 ELSE @,
        !.alerts_sent = IF due /\ ok THEN @ + 1 ELSE @,
        !.raised = due /\ ~ok /\ ~caught]

\* The common tail of the three loop bodies: the cache write, then the
\* send inside try/except when an alert is due.
Observe(acc, key, current_val, delta, due, caught, fail, shown, label) ==
  LET has == key \in DOMAIN acc.cache
      ok == send_ok(acc.attempts + 1, fail)
  IN [acc EXCEPT
        !.cache = Put(@, key, current_val),
        !.events = Append(@, Event(key, has,
                                   IF has THEN acc.cache[key] ELSE 0,
                                   current_val, delta, due, ok, shown, label)),
        !.attempts = IF due THEN @ + 1 ELSE @,
        !.alerts_sent = IF due /\ ok THEN @ + 1 ELSE @,
        !.raised = due /\ ~ok /\ ~caught]

\* A skip that leaves the loop.
break_loop(rest) == <<>>

\* continue: a skipped row or stat leaves the loop with the rows (or stats)
\* after it.
continue_loop(rest) == rest

\* ---------------------------------------------------------- spike detector
\* A detector that logs every row.
spike_top_rows_all(rows) == rows

\* A detector that takes the first TREND_TOP_N rows that carry a name.
spike_top_rows_named(rows) ==
  LET named == SelectSeq(rows, LAMBDA r :
                 strip(IF r.name # <<>> THEN r.name ELSE r.clanName) # <<>>)
  IN IF Len(named) <= TREND_TOP_N THEN named
     ELSE SubSeq(named, 1, TREND_TOP_N)

\* top_rows = rows[:TREND_TOP_N]
spike_top_rows(rows) ==
  IF Len(rows) <= TREND_TOP_N THEN rows ELSE SubSeq(rows, 1, TREND_TOP_N)

\* A delta that measures a first observation from zero.
spike_delta_from_zero(has, last_val, current_val) ==
  IF ~has THEN current_val ELSE current_val - last_val

\* delta = 0.0 if last_val is None else current_val - last_val
spike_delta(has, last_val, current_val) ==
  IF ~has THEN 0 ELSE current_val - last_val

\* An alert condition that needs the delta to exceed the threshold.
spike_alert_due_strict(delta, threshold, clan_name_raw) ==
  /\ delta > threshold
  /\ lower(clan_name_raw) # lower(settings_clan_name)

\* if delta < threshold: continue
\* if clan_name_raw.lower() == settings.clan_name.lower(): continue
spike_alert_due(delta, threshold, clan_name_raw) ==
  /\ ~(delta < threshold)
  /\ lower(clan_name_raw) # lower(settings_clan_name)

\* rank=int(rank) if rank is not None else None
snapshot_rank(rank) == IF rank.t = "none" THEN None ELSE Num(rank.v)

\* add_clan_metric_snapshot: the row inserted into clan_metric_history.
Snapshot(metric_key, clan_name, ts, rank, value) ==
  [metric_key |-> metric_key, clan_name |-> clan_name, ts |-> ts,
   rank |-> rank, value |-> value]

\* except Exception around the spike alert send
spike_send_caught == TRUE

RECURSIVE spike_loop(_, _, _, _, _, _, _)
spike_loop(thresholds, metric_key, sort_by, top_rows, ts, fail, acc) ==
  IF top_rows = <<>> \/ acc.raised THEN acc
  ELSE
    LET row == Head(top_rows)
        rest == Tail(top_rows)
        clan_name_raw == row_clan_name(row)
        parsed == float(dict_get(row.stats, sort_by))
    IN
    IF clan_name_raw = <<>>
    THEN spike_loop(thresholds, metric_key, sort_by, continue_loop(rest), ts,
                    fail, acc)
    ELSE IF ~parsed.ok
    THEN spike_loop(thresholds, metric_key, sort_by, continue_loop(rest), ts,
                    fail, acc)
    ELSE
      LET current_val == parsed.val
          logged == [acc EXCEPT !.snaps =
                       Append(@, Snapshot(metric_key, clan_name_raw, ts,
                                          snapshot_rank(row.rank), current_val))]
      IN
      IF metric_key \notin DOMAIN thresholds
      THEN spike_loop(thresholds, metric_key, sort_by, rest, ts, fail, logged)
      ELSE
        LET cache_key == <<metric_key, clan_name_raw>>
            has == cache_key \in DOMAIN acc.cache
            last_val == IF has THEN acc.cache[cache_key] ELSE 0
            delta == spike_delta(has, last_val, current_val)
            due == spike_alert_due(delta, thresholds[metric_key], clan_name_raw)
        IN spike_loop(thresholds, metric_key, sort_by, rest, ts, fail,
                      Observe(logged, cache_key, current_val, delta, due,
                              spike_send_caught, fail, clan_name_raw, <<>>))

\* log_top_and_detect_spikes(metric_key, rows, sort_by, alert_channel), with
\* the ALERT_THRESHOLDS table, the clock and the sink's behaviour as inputs.
log_top_and_detect_spikes(thresholds, metric_key, rows, sort_by, ts, fail, cache) ==
  IF rows = <<>> THEN Acc(cache)
  ELSE spike_loop(thresholds, metric_key, sort_by, spike_top_rows(rows),
                  ts, fail, Acc(cache))

\* -------------------------------------------------------------- clan watch
\* delta = 0.0 if last_val is None else current_val - last_val
clan_delta(has, last_val, current_val) ==
  IF ~has THEN 0 ELSE current_val - last_val

\* An alert condition that lets an unchanged value through.
clan_alert_due_nonnegative(delta) == ~(delta < 0)

\* if delta <= 0: continue
clan_alert_due(delta) == ~(delta <= 0)

\* A send outside try/except.
clan_send_uncaught == FALSE

\* except Exception around the clan alert send
clan_send_caught == TRUE

\* clan_name = clan_name_raw.lower()
\* if clan_name not in watched_clans: continue
clan_is_watched(clan_name_raw, watched_clans) ==
  lower(clan_name_raw) \in watched_clans

RECURSIVE clan_stats_loop(_, _, _, _, _, _)
clan_stats_loop(group, clan_name, clan_name_raw, stats, fail, acc) ==
  IF stats = <<>> \/ acc.raised THEN acc
  ELSE
    LET stat_key == Head(stats)[1]
        parsed == float(Head(stats)[2])
        rest == Tail(stats)
    IN
    IF ~parsed.ok
    THEN clan_stats_loop(group, clan_name, clan_name_raw, continue_loop(rest),
                         fail, acc)
    ELSE
      LET current_val == parsed.val
          cache_key == <<group, clan_name, stat_key>>
          has == cache_key \in DOMAIN acc.cache
          last_val == IF has THEN acc.cache[cache_key] ELSE 0
          delta == clan_delta(has, last_val, current_val)
      IN clan_stats_loop(group, clan_name, clan_name_raw, rest, fail,
                         Observe(acc, cache_key, current_val, delta,
                                 clan_alert_due(delta), clan_send_caught, fail,
                                 clan_name_raw, <<>>))

RECURSIVE clan_rows_loop(_, _, _, _, _)
clan_rows_loop(group, watched_clans, rows, fail, acc) ==
  IF rows = <<>> \/ acc.raised THEN acc
  ELSE
    LET row == Head(rows)
        rest == Tail(rows)
        clan_name_raw == row_clan_name(row)
        clan_name == lower(clan_name_raw)
    IN
    IF clan_name_raw = <<>>
    THEN clan_rows_loop(group, watched_clans, continue_loop(rest), fail, acc)
    ELSE IF ~clan_is_watched(clan_name_raw, watched_clans)
    THEN clan_rows_loop(group, watched_clans, continue_loop(rest), fail, acc)
    ELSE clan_rows_loop(group, watched_clans, rest, fail,
                        clan_stats_loop(group, clan_name, clan_name_raw,
                                        row.stats, fail, acc))

\* track_watch_clan_all_stats(group, rows, alert_channel), with the registry
\* (get_watch_clans()) and the sink's behaviour as inputs.
track_watch_clan_all_stats(group, rows, registry, fail, cache) ==
  LET watched_clans == {lower(c) : c \in registry}
  IN IF watched_clans = {} THEN Acc(cache)
     ELSE IF rows = <<>> THEN Acc(cache)
     ELSE clan_rows_loop(group, watched_clans, rows, fail, Acc(cache))

\* ------------------------------------------------------------ player watch
\* A delta with its operands swapped.
player_delta_reversed(has, last_val, current_val) ==
  IF ~has THEN 0 ELSE last_val - current_val

\* delta = 0.0 if last_val is None else current_val - last_val
player_delta(has, last_val, current_val) ==
  IF ~has THEN 0 ELSE current_val - last_val

\* if delta <= 0: continue
player_alert_due(delta) == ~(delta <= 0)

\* except Exception around the player alert send
player_send_caught == TRUE

\* A filter that ignores the overrides.
player_is_tracked_watched_only(steam_id, watched_players, extra_clans) ==
  steam_id \in watched_players

\* if steam_id not in watched_players and steam_id not in extra_clans: continue
player_is_tracked(steam_id, watched_players, extra_clans) ==
  ~(steam_id \notin watched_players /\ steam_id \notin DOMAIN extra_clans)

player_clan_label_row_first(steam_id, row, extra_clans) ==
  IF row.clanName # <<>> THEN row.clanName
  ELSE IF steam_id \in DOMAIN extra_clans /\ extra_clans[steam_id] # <<>>
  THEN extra_clans[steam_id]
  ELSE <<"U", "n", "k", "n", "o", "w", "n">>

\* extra_clans.get(steam_id) or row.get("clanName") or "Unknown"
player_clan_label(steam_id, row, extra_clans) ==
  IF steam_id \in DOMAIN extra_clans /\ extra_clans[steam_id] # <<>>
  THEN extra_clans[steam_id]
  ELSE IF row.clanName # <<>> THEN row.clanName
  ELSE <<"U", "n", "k", "n", "o", "w", "n">>

RECURSIVE player_stats_loop(_, _, _, _, _, _)
player_stats_loop(group, steam_id, clan_label, stats, fail, acc) ==
  IF stats = <<>> \/ acc.raised THEN acc
  ELSE
    LET stat_key == Head(stats)[1]
        parsed == float(Head(stats)[2])
        rest == Tail(stats)
    IN
    IF ~parsed.ok
    THEN player_stats_loop(group, steam_id, clan_label, continue_loop(rest),
                           fail, acc)
    ELSE
      LET current_val == parsed.val
          cache_key == <<group, steam_id, stat_key>>
          has == cache_key \in DOMAIN acc.cache
          last_val == IF has THEN acc.cache[cache_key] ELSE 0
          delta == player_delta(has, last_val, current_val)
      IN player_stats_loop(group, steam_id, clan_label, rest, fail,
                           Observe(acc, cache_key, current_val, delta,
                                   player_alert_due(delta), player_send_caught,
                                   fail, steam_id, clan_label))

RECURSIVE player_rows_loop(_, _, _, _, _, _)
player_rows_loop(group, watched_players, extra_clans, rows, fail, acc) ==
  IF rows = <<>> \/ acc.raised THEN acc
  ELSE
    LET row == Head(rows)
        rest == Tail(rows)
        steam_id == row_steam_id(row)
    IN
    IF steam_id = <<>>
    THEN player_rows_loop(group, watched_players, extra_clans,
                          continue_loop(rest), fail, acc)
    ELSE IF ~player_is_tracked(steam_id, watched_players, extra_clans)
    THEN player_rows_loop(group, watched_players, extra_clans,
                          continue_loop(rest), fail, acc)
    ELSE player_rows_loop(group, watched_players, extra_clans, rest, fail,
                          player_stats_loop(group, steam_id,
                                            player_clan_label(steam_id, row, extra_clans),
                                            row.stats, fail, acc))

\* track_watch_players_all_stats(group, rows, alert_channel), with the
\* registry (get_watch_players()), the overrides and the sink as inputs.
track_watch_players_all_stats(group, rows, watched_players, extra_clans, fail, cache) ==
  IF watched_players = {} /\ DOMAIN extra_clans = {} THEN Acc(cache)
  ELSE IF rows = <<>> THEN Acc(cache)
  ELSE player_rows_loop(group, watched_players, extra_clans, rows, fail, Acc(cache))

\* ------------------------------------------------------------------ inputs
Ze == <<"Z", "e">>
ze == <<"z", "e">>
zePadded == <<" ", "z", "e", " ">>
WA == <<"W", "A">>
NoStr == <<>>
Blank == <<" ">>

ClanRow(name, clanName, rank, stats) == Row(name, clanName, NoStr, rank, stats)

\* The clan leaderboards the upstream API returns for a metric sorted by s:
\* two spellings of one clan, the second with a decimal string and no rank,
\* and the bot's own clan in another letter case
LowBatch(s) ==
  << ClanRow(Ze, NoStr, Num(1), << <<s, Num(1)>> >>),
     ClanRow(zePadded, NoStr, None, << <<s, NumStr(1)>> >>),
     ClanRow(WA, NoStr, Num(3), << <<s, Num(1)>> >>) >>

\* all of them at 3
HighBatch(s) ==
  << ClanRow(Ze, NoStr, Num(1), << <<s, Num(3)>>, <<"looted_barrel", Num(1)>> >>),
     ClanRow(WA, NoStr, Num(2), << <<s, Num(3)>> >>),
     ClanRow(zePadded, NoStr, NumStr(3), << <<s, Num(3)>> >>) >>

\* malformed rows and stats among well-formed ones; a name taken from clanName
MixedBatch(s) ==
  << ClanRow(Blank, Ze, Num(1), << <<s, Num(3)>> >>),
     ClanRow(ze, NoStr, Num(2), << <<s, Junk>>, <<"looted_barrel", None>> >>),
     ClanRow(WA, NoStr, Num(3), << <<s, Num(0)>> >>),
     ClanRow(NoStr, Ze, Num(4), << <<s, Num(0)>> >>) >>

\* a leaderboard longer than TREND_TOP_N whose first rows are malformed
LongBatch(s) ==
  << ClanRow(NoStr, NoStr, None, <<>>),
     ClanRow(NoStr, NoStr, None, <<>>),
     ClanRow(Blank, NoStr, None, <<>>),
     ClanRow(Ze, NoStr, Num(4), <<>>),
     ClanRow(Ze, NoStr, Num(5), << <<s, Num(0)>> >>),
     ClanRow(Ze, NoStr, Num(6), << <<s, Num(3)>>, <<"looted_barrel", Num(1)>> >>) >>

\* The metric with a threshold gets all four, the other one the first.
ClanBatches(m, s) ==
  IF m \in DOMAIN ALERT_THRESHOLDS
  THEN {LowBatch(s), HighBatch(s), MixedBatch(s), LongBatch(s)}
  ELSE {LowBatch(s)}

P71 == <<"7", "1">>
P72 == <<"7", "2">>
P72Padded == <<" ", "7", "2">>
P73 == <<"7", "3">>

PlayerRow(steamId, clanName, rank, stats) == Row(NoStr, clanName, steamId, rank, stats)

\* The player leaderboards the upstream API returns (<<>>: an error response
\* or a response without entries).  71 has an override and is not watched,
\* 72 is watched and has no override, 73 is neither.
PlayerBatches ==
  { <<>>,
    << PlayerRow(P71, NoStr, Num(1), << <<"looted_crate", Num(1)>> >>),
       PlayerRow(P72Padded, Ze, Num(2),
                 << <<"looted_crate", Num(1)>>, <<"looted_barrel", Num(0)>> >>),
       PlayerRow(P73, Ze, Num(3), << <<"looted_crate", Num(1)>> >>) >>,
    << PlayerRow(P71, Ze, Num(1), << <<"looted_crate", Num(3)>> >>),
       PlayerRow(NoStr, Ze, Num(2), << <<"looted_crate", Num(3)>> >>),
       PlayerRow(P72, NoStr, None,
                 << <<"looted_crate", Junk>>, <<"looted_barrel", NumStr(3)>> >>),
       PlayerRow(P73, NoStr, Num(4), << <<"looted_crate", Num(3)>> >>),
       PlayerRow(P72, Ze, Num(5), << <<"looted_crate", Num(3)>> >>) >> }

\* -------------------------------------------------------------- trend data
\* The rows the calls of add_clan_metric_snapshot of one consumer call leave
\* in clan_metric_history: each is a plain INSERT.
replace_clan_metric_snapshots(history, snaps) == snaps

add_clan_metric_snapshots(history, snaps) == history \o snaps

\* embeds.TREND_METRICS, two of its entries: "kill_player", which is not a
\* key of METRICS, and a metric the model polls.
TREND_METRICS == <<"kill_player", "looted_hackable">>

\* hours=12 of the call in build_trend_embed
TREND_HOURS == 12

MinOf(S) == CHOOSE x \in S : \A y \in S : x <= y

MaxOf(S) == CHOOSE x \in S : \A y \in S : y <= x

ts_any(ts, cutoff) == TRUE

\* WHERE ... AND ts >= ?
ts_in_window(ts, cutoff) == ts >= cutoff

\* The rows of the first query: WHERE metric_key = ? AND ts >= ?
window_rows(history, metric_key, cutoff) ==
  {i \in DOMAIN history :
     /\ history[i].metric_key = metric_key
     /\ ts_in_window(history[i].ts, cutoff)}

\* LIMIT 1 without ORDER BY: which of the matching rows is returned is not
\* specified.  pick chooses the row inserted first or the one inserted last.
limit_1(matching, pick) ==
  IF pick = "first" THEN MinOf(matching) ELSE MaxOf(matching)

\* WHERE metric_key = ? AND clan_name = ? AND ts = ?
rows_at(history, metric_key, clan_name, ts) ==
  {i \in DOMAIN history :
     /\ history[i].metric_key = metric_key
     /\ history[i].clan_name = clan_name
     /\ history[i].ts = ts}

end_lookup_at_first_ts(first_ts, last_ts) == first_ts

\* The timestamp of the second lookup: last_ts.
end_lookup_ts(first_ts, last_ts) == last_ts

\* One entry of the result: the group of clan_name with MIN(ts) and
\* MAX(ts), and the two lookups.
clan_change(history, metric_key, clan_name, in_window, start_pick, end_pick) ==
  LET mine == {history[i].ts : i \in {j \in in_window :
                                        history[j].clan_name = clan_name}}
      first_ts == MinOf(mine)
      last_ts == MaxOf(mine)
      start_row ==
        history[limit_1(rows_at(history, metric_key, clan_name, first_ts),
                        start_pick)]
      end_row ==
        history[limit_1(rows_at(history, metric_key, clan_name,
                                end_lookup_ts(first_ts, last_ts)), end_pick)]
  IN [clan_name |-> clan_name,
      start |-> start_row.value,
      end |-> end_row.value,
      rank |-> IF end_row.rank.t = "none" THEN 0 ELSE end_row.rank.v]

\* The subsequence of order whose members are in S.
RECURSIVE restrict(_, _)
restrict(order, S) ==
  IF order = <<>> THEN <<>>
  ELSE (IF Head(order) \in S THEN <<Head(order)>> ELSE <<>>)
         \o restrict(Tail(order), S)

\* get_clan_metric_changes(metric_key, hours) at the time now: the entries
\* of the result in the order GROUP BY yields the groups, which SQL leaves
\* open (group_order: the clan names in that order).
get_clan_metric_changes(history, metric_key, hours, now_ts, group_order, start_pick, end_pick) ==
  LET cutoff == now_ts - hours * 3600
      in_window == window_rows(history, metric_key, cutoff)
      clans == restrict(group_order, {history[i].clan_name : i \in in_window})
  IN [c \in DOMAIN clans |->
        clan_change(history, metric_key, clans[c], in_window,
                    start_pick, end_pick)]

\* rows.append((clan, delta, end_val, rank))
trend_row(info) ==
  [clan |-> info.clan_name, delta |-> info.end - info.start,
   end_val |-> info.end, rank |-> info.rank]

\* list.sort(key=delta, reverse=True): stable, so a row goes behind every
\* row whose delta is not smaller.
RECURSIVE insert_by_delta(_, _)
insert_by_delta(sorted, r) ==
  IF sorted = <<>> THEN <<r>>
  ELSE IF Head(sorted).delta >= r.delta
  THEN <<Head(sorted)>> \o insert_by_delta(Tail(sorted), r)
  ELSE <<r>> \o sorted

RECURSIVE sort_by_delta(_)
sort_by_delta(trend_rows) ==
  IF trend_rows = <<>> THEN <<>>
  ELSE insert_by_delta(sort_by_delta(SubSeq(trend_rows, 1, Len(trend_rows) - 1)),
                       trend_rows[Len(trend_rows)])

top5_everything(trend_rows) == trend_rows

\* top5 = rows[:5]
top5(trend_rows) ==
  SubSeq(trend_rows, 1, IF Len(trend_rows) < 5 THEN Len(trend_rows) ELSE 5)

line_wanted_nonnegative(delta) == ~(delta < 0)

\* if delta <= 0: continue
line_wanted(delta) == ~(delta <= 0)

\* The lines of a field: "#{rank} **{clan}** - {end_val} (+{delta} in 12h)"
\* for each row of top5 that is wanted.
trend_lines(top_rows) ==
  LET wanted(r) == line_wanted(r.delta) IN SelectSeq(top_rows, wanted)

NO_DATA == "No data yet."

NO_GAINS == "No positive gains in last 12 hours."

trend_is_empty_or_flat(trend) == \A i \in DOMAIN trend : trend[i].end = trend[i].start

\* if not trend
trend_is_empty(trend) == trend = <<>>

\* The field of one metric: the entries of its raw window result, its
\* value when it is one of the two notices, and its lines.
trend_field(metric_key, trend) ==
  IF trend_is_empty(trend)
  THEN [metric_key |-> metric_key, trend |-> {}, value |-> NO_DATA,
        lines |-> <<>>]
  ELSE
    LET trend_rows == [i \in DOMAIN trend |-> trend_row(trend[i])]
        lines == trend_lines(top5(sort_by_delta(trend_rows)))
    IN [metric_key |-> metric_key, trend |-> {trend[i] : i \in DOMAIN trend},
        value |-> IF lines = <<>> THEN NO_GAINS ELSE "lines",
        lines |-> lines]

\* The loop of build_trend_embed over the trend metrics: a metric METRICS
\* does not define is skipped, every other one gets a field.
RECURSIVE trend_fields(_, _, _, _, _, _, _)
trend_fields(trend_metrics, metrics, history, now_ts, group_order, start_pick, end_pick) ==
  IF trend_metrics = <<>> THEN <<>>
  ELSE
    LET metric_key == Head(trend_metrics)
        rest == trend_fields(Tail(trend_metrics), metrics, history, now_ts,
                             group_order, start_pick, end_pick)
    IN IF metric_key \notin DOMAIN metrics THEN rest
       ELSE <<trend_field(metric_key,
                          get_clan_metric_changes(history, metric_key,
                                                  TREND_HOURS, now_ts,
                                                  group_order, start_pick,
                                                  end_pick))>> \o rest

\* build_trend_embed(), with the METRICS table, the snapshot table, the
\* clock and the choices SQL leaves open as inputs.  The embed records the
\* time of the query and the number of snapshots the table held.
build_trend_embed(metrics, history, now_ts, group_order, start_pick, end_pick) ==
  [at |-> now_ts, seen |-> Len(history),
   fields |-> trend_fields(TREND_METRICS, metrics, history, now_ts,
                           group_order, start_pick, end_pick)]

NoEmbed == [at |-> 0, seen |-> 0, fields |-> <<>>]

\* ------------------------------------------------------------------- state
VARIABLES
  LAST_CLAN_METRIC_VALUES,   \* (metric_key, clan_name) -> last value
  WATCH_CLAN_LAST_VALUES,    \* (group, clan_name, stat_key) -> last value
  WATCH_PLAYER_LAST_VALUES,  \* (group, steam_id, stat_key) -> last value
  tracking_enabled,          \* _tracking_enabled
  watch_clans,               \* table watch_clans
  watch_players,             \* table watch_players
  clan_metric_history,       \* table clan_metric_history, in insertion order
  now,                       \* time.time()
  pc,                        \* position of the poll cycle
  todo,                      \* metrics the cycle's loop has not visited yet
  metric_key,                \* the metric the loop is at
  rows,                      \* the rows fetched for it
  player_rows_cache,         \* group -> player rows fetched in this cycle
  alert_count,               \* the cycle's alert_count
  cycles,                    \* poll cycles started
  fetches,                   \* clan leaderboards that came back with rows
  awaited,                   \* the last step of the cycle awaited a send
  last,                      \* the last consumer call: inputs and result
  sends,                     \* the sends of this cycle: attempted, failed
  last_cmd,                  \* the last registry command: input and outcome
  trend_embed,               \* the trend embed built last
  cycle_log,                 \* what the cycle in progress did so far
  toggles,                   \* /toggle commands since the start, modulo 2
  suspended,                 \* a second cycle, suspended in an await
  loop_started,              \* periodic_update.is_running()
  user_links,                \* table user_links: discord_id -> steam_id
  parsed,                    \* the last response parsed and its rows
  workers,                   \* consumer calls in progress, one per task
  obs_log,                   \* the observations the consumer calls made
  channel                    \* what bot.get_channel(settings.channel_id)
                             \* returns, and the calls it stopped

vars ==
  <<LAST_CLAN_METRIC_VALUES, WATCH_CLAN_LAST_VALUES, WATCH_PLAYER_LAST_VALUES,
    tracking_enabled, watch_clans, watch_players, clan_metric_history, now,
    pc, todo, metric_key, rows, player_rows_cache, alert_count, cycles,
    fetches, awaited, last, sends, last_cmd, trend_embed, cycle_log,
    toggles, suspended, loop_started, user_links, parsed, workers, obs_log,
    channel>>

caches ==
  <<LAST_CLAN_METRIC_VALUES, WATCH_CLAN_LAST_VALUES, WATCH_PLAYER_LAST_VALUES>>

registry == <<watch_clans, watch_players>>

counters == <<cycles, fetches>>

\* The tasks that run beside the cycle.
tasks == <<suspended, loop_started>>

\* What the poll cycle of post_walobots_update and the registry commands
\* leave alone.
aside == <<user_links, parsed, workers, obs_log, channel>>

\* The record kept of a consumer call.
Call(op, ts, key, cfg, in_rows, reg, pre, res) ==
  [op |-> op, ts |-> ts, metric_key |-> key, group |-> cfg.group,
   sort_by |-> cfg.sortBy, rows |-> in_rows, reg |-> reg, pre |-> pre, events |-> res.events, snaps |-> res.snaps,
   ret |-> res.alerts_sent, raised |-> res.raised]

NoCall ==
  [op |-> "none", ts |-> 0, metric_key |-> "", group |-> "",
   sort_by |-> "", rows |-> <<>>, reg |-> {}, pre |-> EmptyCache, events |-> <<>>, snaps |-> <<>>, ret |-> 0,
   raised |-> FALSE]

\* The record kept of the sends of a cycle: how many were attempted, how
\* many raised, and while processing which metrics.
NoSends == [attempted |-> 0, failed |-> 0, failed_in |-> {}]

Sent(res, key) ==
  LET failed == res.attempts - res.alerts_sent
  IN [attempted |-> sends.attempted + res.attempts,
      failed |-> sends.failed + failed,
      failed_in |-> IF failed > 0 THEN sends.failed_in \cup {key}
                    ELSE sends.failed_in]

\* ------------------------------------------------------------ watch tables
\* The tables watch_clans and watch_players are the sequences of their rows
\* in insertion order; the column is the primary key.
Rows(table) == {table[i] : i \in DOMAIN table}

\* An INSERT that raises on a key the table holds.
insert_plain(table, key) ==
  IF key \in Rows(table)
  THEN [table |-> table, raised |-> TRUE]
  ELSE [table |-> Append(table, key), raised |-> FALSE]

\* INSERT OR IGNORE INTO table VALUES (key)
insert_or_ignore(table, key) ==
  IF key \in Rows(table)
  THEN [table |-> table, raised |-> FALSE]
  ELSE [table |-> Append(table, key), raised |-> FALSE]

\* DELETE FROM table WHERE column = key
delete_where(table, key) ==
  LET keep(x) == x # key
  IN [table |-> SelectSeq(table, keep), raised |-> FALSE]

NoChange(table) == [table |-> table, raised |-> FALSE]

\* A registration that stores the name as it was given.
add_watch_clan_as_given(table, clan_name) ==
  IF clan_name = <<>> THEN NoChange(table)
  ELSE insert_or_ignore(table, clan_name)

\* add_watch_clan(clan_name)
add_watch_clan(table, clan_name) ==
  IF clan_name = <<>> THEN NoChange(table)
  ELSE insert_or_ignore(table, lower(clan_name))

\* A removal that looks for the name as it was given.
remove_watch_clan_as_given(table, clan_name) ==
  IF clan_name = <<>> THEN NoChange(table)
  ELSE delete_where(table, clan_name)

\* remove_watch_clan(clan_name)
remove_watch_clan(table, clan_name) ==
  IF clan_name = <<>> THEN NoChange(table)
  ELSE delete_where(table, lower(clan_name))

\* add_watch_player(steam_id)
add_watch_player(table, steam_id) ==
  IF steam_id = <<>> THEN NoChange(table)
  ELSE insert_or_ignore(table, steam_id)

\* remove_watch_player(steam_id)
remove_watch_player(table, steam_id) ==
  IF steam_id = <<>> THEN NoChange(table)
  ELSE delete_where(table, steam_id)

\* get_watch_clans() and get_watch_players()
get_watch_clans == Rows(watch_clans)
get_watch_players == Rows(watch_players)

\* The sequences that hold each element of S once: the orders in which the
\* loop over a set can visit it.
Orderings(S) ==
  {q \in [1..Cardinality(S) -> S] : \A x \in S : \E i \in DOMAIN q : q[i] = x}

\* The record kept of a registry command.
Cmd(op, arg, res) ==
  [op |-> op, arg |-> arg, clans |-> watch_clans, players |-> watch_players,
   raised |-> res.raised]

NoCmd ==
  [op |-> "none", arg |-> <<>>, clans |-> <<>>, players |-> <<>>,
   raised |-> FALSE]

\* The record kept of a cycle: who started it, whether it is the first one
\* of the process, the tracking flag at its start, the metrics it loops over, how often it fetched each clan
\* leaderboard and each group's player leaderboard, the metrics whose fetch
\* gave no rows in it and in the cycle before it, the keys of
\* stats_for_leaderboard, the keys its player watch has observed, and what
\* became of its two views.
NoViews == [leaderboard |-> "none", trend |-> "none"]

NoLog ==
  [owner |-> "none", first |-> FALSE, flag |-> FALSE, keys |-> {},
   clan_fetches |-> [m \in {} |-> 0], player_fetches |-> [g \in {} |-> 0],
   no_rows |-> {}, failed_before |-> {}, leaderboard |-> {},
   player_keys |-> {}, views |-> NoViews]

NewLog(metrics, owner, before) ==
  [owner |-> owner, first |-> before.owner = "none",
   flag |-> tracking_enabled, keys |-> DOMAIN metrics,
   clan_fetches |-> [m \in DOMAIN metrics |-> 0],
   player_fetches |-> [g \in {metrics[m].group : m \in DOMAIN metrics} |-> 0],
   no_rows |-> {}, failed_before |-> before.no_rows, leaderboard |-> {},
   player_keys |-> {}, views |-> NoViews]

\* No second cycle is suspended.
NoTask == [pc |-> "none"]

\* bot.get_channel(settings.channel_id) returns a text channel, and no call
\* of post_walobots_update was stopped by the channel it found.  stopped
\* counts those calls, stopped_at is the clock at the last of them.
TextChannel == [kind |-> "text", stopped |-> 0, stopped_at |-> 0]

\* What get_channel can return: a text channel, None (the id is unknown to
\* the cache), a category (a channel that is not messageable).
ChannelKinds == {"text", "none", "category"}

\* A check that only asks whether the channel was found.
channel_found(kind) == kind # "none"

\* The two checks at the head of post_walobots_update: the channel is not
\* None and is a discord.abc.Messageable.
channel_usable(kind) == kind # "none" /\ kind # "category"

\* The table user_links before any /link.
NoLinks == [u \in {} |-> <<>>]

\* Nothing was parsed yet.
NoParse == [data |-> None, rows |-> <<>>, raised |-> "none"]

\* The tasks that call post_walobots_update, and a task that runs no
\* consumer call.
Workers == {"on_ready", "periodic_update"}

IdleWorker ==
  [pc |-> "idle", op |-> "none", todo |-> 0, seen |-> EmptyCache]

\* No observation was made yet.  calls counts the consumer calls begun, per
\* keeps for every key observed its first value and the sum of the deltas
\* computed for it.
NoObs == [calls |-> 0, per |-> [k \in {} |-> 0]]

\* Module load and init_db(): empty caches, tracking off, registry seeded
\* from the configuration.
Init ==
  /\ LAST_CLAN_METRIC_VALUES = EmptyCache
  /\ WATCH_CLAN_LAST_VALUES = EmptyCache
  /\ WATCH_PLAYER_LAST_VALUES = EmptyCache
  /\ tracking_enabled = FALSE
  /\ watch_clans \in Orderings({lower(c) : c \in settings_watch_clan_names})
  /\ watch_players \in Orderings(settings_watch_player_ids)
  /\ clan_metric_history = <<>>
  /\ now = 0
  /\ pc = "idle"
  /\ todo = {}
  /\ metric_key = ""
  /\ rows = <<>>
  /\ player_rows_cache = [g \in {} |-> <<>>]
  /\ alert_count = 0
  /\ cycles = 0
  /\ fetches = 0
  /\ awaited = FALSE
  /\ last = NoCall
  /\ sends = NoSends
  /\ last_cmd = NoCmd
  /\ trend_embed = NoEmbed
  /\ cycle_log = NoLog
  /\ toggles = 0
  /\ suspended = NoTask
  /\ loop_started = FALSE
  /\ user_links = NoLinks
  /\ parsed = NoParse
  /\ workers = [w \in Workers |-> IdleWorker]
  /\ obs_log = NoObs
  /\ channel = TextChannel

\* ------------------------------------------------------------- poll cycle
\* The steps of post_walobots_update.  The tables METRICS and
\* ALERT_THRESHOLDS the steps consult are parameters (metrics, thresholds),
\* so that a cycle can be run on the program's tables and on the tables of a
\* test scenario.
\* The sink's behaviour during a consumer call that attempts n sends: which
\* of the first two sends raise.
FailSets(n) == SUBSET (1..(IF n < 2 THEN n ELSE 2))

\* post_walobots_update is called while no other call of it is in
\* progress: it resolves the channel and enters the loop over
\* set(METRICS.keys()).
StartCycle(metrics, max_cycles) ==
  /\ pc = "idle"
  /\ channel_usable(channel.kind)
  /\ suspended = NoTask
  /\ cycle_log' = NewLog(metrics, "periodic_update", cycle_log)
  /\ cycles < max_cycles
  /\ pc' = "loop"
  /\ todo' = DOMAIN metrics
  /\ player_rows_cache' = [g \in {} |-> <<>>]
  /\ alert_count' = 0
  /\ cycles' = cycles + 1
  /\ now' = now + 1
  /\ awaited' = FALSE
  /\ sends' = NoSends
  /\ UNCHANGED <<caches, tracking_enabled, registry, clan_metric_history,
                 metric_key, rows, fetches, last, last_cmd, trend_embed>>
  /\ UNCHANGED <<toggles, tasks, aside>>

\* A request without a timeout, on a connection that stays silent.
fetch_hangs == FALSE

\* requests.get(BASE_URL, params=params, timeout=10): the fetch returns, with
\* a response or with an error.
fetch_returns == TRUE

\* An exception of the fetch that ends the cycle.
fetch_failure_uncaught == FALSE

\* try: data = fetch_leaderboard_for_metric(metric_key)
\* except Exception: continue
fetch_failure_caught == TRUE

\* A loop that leaves the metric to be visited again.
visit_again(keys, m) == keys

\* for metric_key in metric_keys_to_fetch: each key is visited once.
visited(keys, m) == keys \ {m}

\* The fetch of metric m raises, or its response parses to no rows:
\* the loop continues with the next metric.
FetchNoRows(m) ==
  /\ pc = "loop"
  /\ m \in todo
  /\ fetch_returns
  /\ todo' = visited(todo, m)
  /\ pc' = IF fetch_failure_caught THEN "loop" ELSE "idle"
  /\ awaited' = FALSE
  /\ cycle_log' = [cycle_log EXCEPT !.clan_fetches[m] = @ + 1,
                                    !.no_rows = @ \cup {m}]
  /\ UNCHANGED <<caches, tracking_enabled, registry, clan_metric_history, now,
                 metric_key, rows, player_rows_cache, alert_count,
                 counters, last, sends, last_cmd, trend_embed>>
  /\ UNCHANGED <<toggles, tasks, aside>>

\* The fetch of metric m returns the rows batch.
FetchRows(m, batch, max_fetches) ==
  /\ pc = "loop"
  /\ m \in todo
  /\ fetch_returns
  /\ fetches < max_fetches
  /\ todo' = visited(todo, m)
  /\ cycle_log' = [cycle_log EXCEPT !.clan_fetches[m] = @ + 1,
                                    !.leaderboard = @ \cup {m}]
  /\ metric_key' = m
  /\ rows' = batch
  /\ fetches' = fetches + 1
  /\ pc' = "spikes"
  /\ awaited' = FALSE
  /\ UNCHANGED <<caches, tracking_enabled, registry, clan_metric_history, now,
                 player_rows_cache, alert_count, cycles, last, sends, last_cmd, trend_embed>>
  /\ UNCHANGED <<toggles, tasks, aside>>

\* A spike detector that runs only while tracking is enabled.
SpikesWantedWhenTracking(thresholds) ==
  tracking_enabled /\ metric_key \in DOMAIN thresholds

\* if metric_key in ALERT_THRESHOLDS
SpikesWanted(thresholds) == metric_key \in DOMAIN thresholds

\* if metric_key in ALERT_THRESHOLDS:
\*     alert_count += await log_top_and_detect_spikes(...)
DetectSpikes(metrics, thresholds, fail) ==
  /\ pc = "spikes"
  /\ SpikesWanted(thresholds)
  /\ LET res == log_top_and_detect_spikes(thresholds, metric_key, rows,
                                          metrics[metric_key].sortBy, now, fail,
                                          LAST_CLAN_METRIC_VALUES)
     IN /\ fail \in FailSets(res.attempts)
        /\ LAST_CLAN_METRIC_VALUES' = res.cache
        /\ clan_metric_history' =
             add_clan_metric_snapshots(clan_metric_history, res.snaps)
        /\ alert_count' = alert_count + res.alerts_sent
        /\ awaited' = (res.attempts > 0)
        /\ last' = Call("spike", now, metric_key, metrics[metric_key], rows,
                        {}, LAST_CLAN_METRIC_VALUES, res)
        /\ sends' = Sent(res, metric_key)
        /\ pc' = IF res.raised THEN "idle" ELSE "clan_watch"
  /\ UNCHANGED <<WATCH_CLAN_LAST_VALUES, WATCH_PLAYER_LAST_VALUES,
                 tracking_enabled, registry, now, todo, metric_key, rows,
                 player_rows_cache, counters, last_cmd, trend_embed>>
  /\ UNCHANGED <<cycle_log, toggles, tasks, aside>>

\* The metric has no threshold: no spike detection, no snapshot.
SkipSpikes(thresholds) ==
  /\ pc = "spikes"
  /\ ~SpikesWanted(thresholds)
  /\ pc' = "clan_watch"
  /\ awaited' = FALSE
  /\ UNCHANGED <<caches, tracking_enabled, registry, clan_metric_history, now,
                 todo, metric_key, rows, player_rows_cache, alert_count,
                 counters, last, sends, last_cmd, trend_embed>>
  /\ UNCHANGED <<cycle_log, toggles, tasks, aside>>

\* if is_tracking_enabled() and get_watch_clans():
\*     alert_count += await track_watch_clan_all_stats(group, rows, channel)
WatchClans(metrics, fail) ==
  /\ pc = "clan_watch"
  /\ tracking_enabled /\ get_watch_clans # {}
  /\ LET res == track_watch_clan_all_stats(metrics[metric_key].group, rows,
                                           get_watch_clans, fail,
                                           WATCH_CLAN_LAST_VALUES)
     IN /\ fail \in FailSets(res.attempts)
        /\ WATCH_CLAN_LAST_VALUES' = res.cache
        /\ alert_count' = alert_count + res.alerts_sent
        /\ awaited' = (res.attempts > 0)
        /\ last' = Call("clan", now, metric_key, metrics[metric_key], rows,
                        get_watch_clans, WATCH_CLAN_LAST_VALUES, res)
        /\ sends' = Sent(res, metric_key)
        /\ pc' = IF res.raised THEN "idle" ELSE "player_watch"
  /\ UNCHANGED <<LAST_CLAN_METRIC_VALUES, WATCH_PLAYER_LAST_VALUES,
                 tracking_enabled, registry, clan_metric_history, now, todo,
                 metric_key, rows, player_rows_cache, counters, last_cmd, trend_embed>>
  /\ UNCHANGED <<cycle_log, toggles, tasks, aside>>

SkipWatchClans ==
  /\ pc = "clan_watch"
  /\ ~(tracking_enabled /\ get_watch_clans # {})
  /\ pc' = "player_watch"
  /\ awaited' = FALSE
  /\ UNCHANGED <<caches, tracking_enabled, registry, clan_metric_history, now,
                 todo, metric_key, rows, player_rows_cache, alert_count,
                 counters, last, sends, last_cmd, trend_embed>>
  /\ UNCHANGED <<cycle_log, toggles, tasks, aside>>

\* A player watch that does not ask for the tracking flag.
PlayerWatchWhateverTheFlag ==
  get_watch_players # {} \/ DOMAIN settings_player_clan_overrides # {}

\* is_tracking_enabled() and (get_watch_players() or settings.player_clan_overrides)
PlayerWatchWanted ==
  tracking_enabled
    /\ (get_watch_players # {} \/ DOMAIN settings_player_clan_overrides # {})

\* The player leaderboard of the group is not cached yet and its fetch
\* raises: continue with the next metric.
PlayerFetchRaises(metrics) ==
  /\ pc = "player_watch"
  /\ PlayerWatchWanted
  /\ metrics[metric_key].group \notin DOMAIN player_rows_cache
  /\ cycle_log' =
       [cycle_log EXCEPT !.player_fetches[metrics[metric_key].group] = @ + 1]
  /\ pc' = "loop"
  /\ awaited' = FALSE
  /\ UNCHANGED <<caches, tracking_enabled, registry, clan_metric_history, now,
                 todo, metric_key, rows, player_rows_cache, alert_count,
                 counters, last, sends, last_cmd, trend_embed>>
  /\ UNCHANGED <<toggles, tasks, aside>>

\* A player watch that fetches the group's player leaderboard in every run.
WatchPlayersFetchingAgain(metrics, fetched, fail) ==
  /\ pc = "player_watch"
  /\ PlayerWatchWanted
  /\ LET group == metrics[metric_key].group
         cached == group \in DOMAIN player_rows_cache
         prows == fetched
         res == track_watch_players_all_stats(group, prows, get_watch_players,
                                              settings_player_clan_overrides,
                                              fail, WATCH_PLAYER_LAST_VALUES)
     IN /\ fail \in FailSets(res.attempts)
        /\ player_rows_cache' =
             [g \in (DOMAIN player_rows_cache) \cup {group} |->
                IF g = group THEN prows ELSE player_rows_cache[g]]
        /\ WATCH_PLAYER_LAST_VALUES' = res.cache
        /\ alert_count' = alert_count + res.alerts_sent
        /\ awaited' = (res.attempts > 0)
        /\ last' = Call("player", now, metric_key, metrics[metric_key], prows,
                        get_watch_players, WATCH_PLAYER_LAST_VALUES, res)
        /\ sends' = Sent(res, metric_key)
        /\ cycle_log' =
             [cycle_log EXCEPT
                !.player_fetches[group] = IF cached THEN @ ELSE @ + 1,
                !.player_keys =
                  @ \cup {res.events[i].key : i \in DOMAIN res.events}]
        /\ pc' = IF res.raised THEN "idle" ELSE "loop"
  /\ UNCHANGED <<LAST_CLAN_METRIC_VALUES, WATCH_CLAN_LAST_VALUES,
                 tracking_enabled, registry, clan_metric_history, now, todo,
                 metric_key, rows, counters, last_cmd, trend_embed>>
  /\ UNCHANGED <<toggles, tasks, aside>>

\* alert_count += await track_watch_players_all_stats(group,
\*                                   player_rows_cache[group], channel)
\* after fetching the group's player leaderboard if it is not cached.
WatchPlayers(metrics, fetched, fail) ==
  /\ pc = "player_watch"
  /\ PlayerWatchWanted
  /\ LET group == metrics[metric_key].group
         cached == group \in DOMAIN player_rows_cache
         prows == IF cached THEN player_rows_cache[group] ELSE fetched
         res == track_watch_players_all_stats(group, prows, get_watch_players,
                                              settings_player_clan_overrides,
                                              fail, WATCH_PLAYER_LAST_VALUES)
     IN /\ fail \in FailSets(res.attempts)
        /\ player_rows_cache' =
             [g \in (DOMAIN player_rows_cache) \cup {group} |->
                IF g = group THEN prows ELSE player_rows_cache[g]]
        /\ WATCH_PLAYER_LAST_VALUES' = res.cache
        /\ alert_count' = alert_count + res.alerts_sent
        /\ awaited' = (res.attempts > 0)
        /\ last' = Call("player", now, metric_key, metrics[metric_key], prows,
                        get_watch_players, WATCH_PLAYER_LAST_VALUES, res)
        /\ sends' = Sent(res, metric_key)
        /\ cycle_log' =
             [cycle_log EXCEPT
                !.player_fetches[group] = IF cached THEN @ ELSE @ + 1,
                !.player_keys =
                  @ \cup {res.events[i].key : i \in DOMAIN res.events}]
        /\ pc' = IF res.raised THEN "idle" ELSE "loop"
  /\ UNCHANGED <<LAST_CLAN_METRIC_VALUES, WATCH_CLAN_LAST_VALUES,
                 tracking_enabled, registry, clan_metric_history, now, todo,
                 metric_key, rows, counters, last_cmd, trend_embed>>
  /\ UNCHANGED <<toggles, tasks, aside>>

SkipWatchPlayers ==
  /\ pc = "player_watch"
  /\ ~PlayerWatchWanted
  /\ pc' = "loop"
  /\ awaited' = FALSE
  /\ UNCHANGED <<caches, tracking_enabled, registry, clan_metric_history, now,
                 todo, metric_key, rows, player_rows_cache, alert_count,
                 counters, last, sends, last_cmd, trend_embed>>
  /\ UNCHANGED <<cycle_log, toggles, tasks, aside>>

\* The clan names of history in the order of their first snapshot.
RECURSIVE first_seen(_, _)
first_seen(history, names) ==
  IF history = <<>> THEN names
  ELSE first_seen(Tail(history),
                  IF \E i \in DOMAIN names : names[i] = Head(history).clan_name
                  THEN names ELSE Append(names, Head(history).clan_name))

reversed(q) == [i \in DOMAIN q |-> q[Len(q) + 1 - i]]

\* The choices SQL leaves open in one run of build_trend_embed.  The order
\* of the groups is drawn from two orders: that of the clans' first
\* snapshots and its reverse.
GroupOrders ==
  LET names == first_seen(clan_metric_history, <<>>)
  IN {names, reversed(names)}

Picks == {"first", "last"}

\* A leaderboard embed that is delivered while the loop still has metrics
\* to visit.
UpdateLeaderboardInLoop(outcomes) ==
  /\ pc = "loop"
  /\ cycle_log.views.leaderboard = "none"
  /\ \E outcome \in outcomes \cap {"delivered", "resent"} :
       cycle_log' = [cycle_log EXCEPT !.views.leaderboard = outcome]
  /\ pc' = IF todo = {} THEN "trend" ELSE "loop"
  /\ awaited' = TRUE
  /\ UNCHANGED <<caches, tracking_enabled, registry, clan_metric_history, now,
                 todo, metric_key, rows, player_rows_cache, alert_count,
                 counters, last, sends, last_cmd, trend_embed>>
  /\ UNCHANGED <<toggles, tasks, aside>>

\* Every metric was visited: the leaderboard embed is built and delivered,
\* by the edit of the configured message, or by a send after that edit
\* failed.
UpdateLeaderboard(outcomes) ==
  /\ pc = "loop"
  /\ todo = {}
  /\ \E outcome \in outcomes \cap {"delivered", "resent"} :
       cycle_log' = [cycle_log EXCEPT !.views.leaderboard = outcome]
  /\ pc' = "trend"
  /\ awaited' = TRUE
  /\ UNCHANGED <<caches, tracking_enabled, registry, clan_metric_history, now,
                 todo, metric_key, rows, player_rows_cache, alert_count,
                 counters, last, sends, last_cmd, trend_embed>>
  /\ UNCHANGED <<toggles, tasks, aside>>

\* The send of the leaderboard embed raises: the exception leaves
\* post_walobots_update.
LeaderboardSendRaises ==
  /\ pc = "loop"
  /\ todo = {}
  /\ cycle_log' = [cycle_log EXCEPT !.views.leaderboard = "raised"]
  /\ pc' = "idle"
  /\ awaited' = FALSE
  /\ UNCHANGED <<caches, tracking_enabled, registry, clan_metric_history, now,
                 todo, metric_key, rows, player_rows_cache, alert_count,
                 counters, last, sends, last_cmd, trend_embed>>
  /\ UNCHANGED <<toggles, tasks, aside>>

\* The trend embed is built and its send raises.
TrendSendRaises(metrics) ==
  /\ pc = "trend"
  /\ cycle_log' = [cycle_log EXCEPT !.views.trend = "raised"]
  /\ pc' = "idle"
  /\ awaited' = FALSE
  /\ \E group_order \in GroupOrders : \E start_pick, end_pick \in Picks :
       trend_embed' = build_trend_embed(metrics, clan_metric_history, now,
                                       group_order, start_pick, end_pick)
  /\ UNCHANGED <<caches, tracking_enabled, registry, clan_metric_history, now,
                 todo, metric_key, rows, player_rows_cache, alert_count,
                 counters, last, sends, last_cmd>>
  /\ UNCHANGED <<toggles, tasks, aside>>

\* The trend embed is built and delivered, and the cycle ends.
UpdateTrend(metrics) ==
  /\ pc = "trend"
  /\ cycle_log' = [cycle_log EXCEPT !.views.trend = "delivered"]
  /\ pc' = "idle"
  /\ awaited' = FALSE
  /\ \E group_order \in GroupOrders : \E start_pick, end_pick \in Picks :
       trend_embed' = build_trend_embed(metrics, clan_metric_history, now,
                                       group_order, start_pick, end_pick)
  /\ UNCHANGED <<caches, tracking_enabled, registry, clan_metric_history, now,
                 todo, metric_key, rows, player_rows_cache, alert_count,
                 counters, last, sends, last_cmd>>
  /\ UNCHANGED <<toggles, tasks, aside>>

\* Every metric was visited, both embeds are delivered with nothing else
\* running in between, and the cycle ends.
FinishCycle(metrics) ==
  /\ pc = "loop"
  /\ todo = {}
  /\ cycle_log' = [cycle_log EXCEPT !.views = [leaderboard |-> "delivered",
                                               trend |-> "delivered"]]
  /\ pc' = "idle"
  /\ awaited' = FALSE
  /\ \E group_order \in GroupOrders : \E start_pick, end_pick \in Picks :
       trend_embed' = build_trend_embed(metrics, clan_metric_history, now,
                                       group_order, start_pick, end_pick)
  /\ UNCHANGED <<caches, tracking_enabled, registry, clan_metric_history, now,
                 todo, metric_key, rows, player_rows_cache, alert_count,
                 counters, last, sends, last_cmd>>
  /\ UNCHANGED <<toggles, tasks, aside>>

\* /inittrend: build_trend_embed() and send it.
InitTrendMessage(metrics) ==
  /\ pc = "idle" \/ awaited
  /\ \E group_order \in GroupOrders : \E start_pick, end_pick \in Picks :
       trend_embed' = build_trend_embed(metrics, clan_metric_history, now,
                                       group_order, start_pick, end_pick)
  /\ UNCHANGED <<caches, tracking_enabled, registry, clan_metric_history, now,
                 pc, todo, metric_key, rows, player_rows_cache, alert_count,
                 counters, awaited, last, sends, last_cmd>>
  /\ UNCHANGED <<cycle_log, toggles, tasks, aside>>

\* Time passes between two cycles.
Tick(seconds, max_clock) ==
  /\ pc = "idle"
  /\ now + seconds <= max_clock
  /\ now' = now + seconds
  /\ UNCHANGED <<caches, tracking_enabled, registry, clan_metric_history,
                 pc, todo, metric_key, rows, player_rows_cache, alert_count,
                 counters, awaited, last, sends, last_cmd, trend_embed>>
  /\ UNCHANGED <<cycle_log, toggles, tasks, aside>>

\* ---------------------------------------------------------------- commands
\* A command that switches tracking on.
switched_on(current) == TRUE

\* current = is_tracking_enabled(); new_state = not current
toggled(current) == ~current

\* /toggle: set_tracking_enabled(not is_tracking_enabled()).  A command
\* runs between cycles or while the cycle is suspended in a send.
Toggle ==
  /\ pc = "idle" \/ awaited
  /\ tracking_enabled' = toggled(tracking_enabled)
  /\ toggles' = (toggles + 1) % 2
  /\ UNCHANGED <<caches, registry, clan_metric_history, now, pc, todo,
                 metric_key, rows, player_rows_cache, alert_count, cycles,
                 fetches, awaited, last, sends, last_cmd, trend_embed>>
  /\ UNCHANGED <<cycle_log, tasks, aside>>

\* _is_valid_steam_id(steam_id): digits only, of the length of a SteamID64.
\* The ids of the model have STEAM_ID_LEN digits where the source has 17.
Digits == {"0", "1", "2", "3", "4", "5", "6", "7", "8", "9"}

STEAM_ID_LEN == 2

\* The character SUPERSCRIPT TWO (U+00B2).
Sup2 == "^2"

\* The characters of the model for which str.isdigit() is true: the
\* decimal digits and the characters Unicode gives a digit value without
\* making them decimal digits, such as the superscript digits.
DigitChars == Digits \cup {Sup2}

\* str.isdigit(): at least one character, and all of them digits.
isdigit(s) == s # <<>> /\ \A i \in DOMAIN s : s[i] \in DigitChars

is_valid_steam_id(steam_id) ==
  LET cleaned == strip(steam_id)
  IN /\ isdigit(cleaned)
     /\ Len(cleaned) = STEAM_ID_LEN

\* /track clan_name: usage message for a missing or blank name, else
\* add_watch_clan(clan_name.strip()).
TrackClan(clan_name) ==
  /\ pc = "idle" \/ awaited
  /\ LET cleaned == strip(clan_name)
         res == IF cleaned = <<>> THEN NoChange(watch_clans)
                ELSE add_watch_clan(watch_clans, cleaned)
     IN /\ watch_clans' = res.table
        /\ last_cmd' = Cmd("track", clan_name, res)
  /\ UNCHANGED <<caches, tracking_enabled, watch_players, clan_metric_history,
                 now, pc, todo, metric_key, rows, player_rows_cache,
                 alert_count, counters, awaited, last, sends, trend_embed>>
  /\ UNCHANGED <<cycle_log, toggles, tasks, aside>>

\* An /untrack that also drops what the clan watch has stored.
UntrackClanForgets(clan_name) ==
  /\ pc = "idle" \/ awaited
  /\ LET cleaned == strip(clan_name)
         res == IF cleaned = <<>> THEN NoChange(watch_clans)
                ELSE remove_watch_clan(watch_clans, cleaned)
     IN /\ watch_clans' = res.table
        /\ last_cmd' = Cmd("untrack", clan_name, res)
        /\ WATCH_CLAN_LAST_VALUES' =
             IF cleaned = <<>> THEN WATCH_CLAN_LAST_VALUES ELSE EmptyCache
  /\ UNCHANGED <<LAST_CLAN_METRIC_VALUES, WATCH_PLAYER_LAST_VALUES,
                 tracking_enabled, watch_players, clan_metric_history,
                 now, pc, todo, metric_key, rows, player_rows_cache,
                 alert_count, counters, awaited, last, sends, trend_embed>>
  /\ UNCHANGED <<cycle_log, toggles, tasks, aside>>

\* /untrack clan_name: usage message for a missing or blank name, else
\* remove_watch_clan(clan_name.strip()).
UntrackClan(clan_name) ==
  /\ pc = "idle" \/ awaited
  /\ LET cleaned == strip(clan_name)
         res == IF cleaned = <<>> THEN NoChange(watch_clans)
                ELSE remove_watch_clan(watch_clans, cleaned)
     IN /\ watch_clans' = res.table
        /\ last_cmd' = Cmd("untrack", clan_name, res)
  /\ UNCHANGED <<caches, tracking_enabled, watch_players, clan_metric_history,
                 now, pc, todo, metric_key, rows, player_rows_cache,
                 alert_count, counters, awaited, last, sends, trend_embed>>
  /\ UNCHANGED <<cycle_log, toggles, tasks, aside>>

\* /trackplayer steam_id: refused for a missing, blank or invalid id and
\* for a player that is tracked already, else add_watch_player(cleaned).
TrackPlayer(steam_id) ==
  /\ pc = "idle" \/ awaited
  /\ LET cleaned == strip(steam_id)
         res == IF cleaned = <<>> THEN NoChange(watch_players)
                ELSE IF ~is_valid_steam_id(cleaned) THEN NoChange(watch_players)
                ELSE IF cleaned \in get_watch_players THEN NoChange(watch_players)
                ELSE add_watch_player(watch_players, cleaned)
     IN /\ watch_players' = res.table
        /\ last_cmd' = Cmd("trackplayer", steam_id, res)
  /\ UNCHANGED <<caches, tracking_enabled, watch_clans, clan_metric_history,
                 now, pc, todo, metric_key, rows, player_rows_cache,
                 alert_count, counters, awaited, last, sends, trend_embed>>
  /\ UNCHANGED <<cycle_log, toggles, tasks, aside>>

\* /untrackplayer steam_id: usage message for a missing or blank id, else
\* remove_watch_player(steam_id.strip()).
UntrackPlayer(steam_id) ==
  /\ pc = "idle" \/ awaited
  /\ LET cleaned == strip(steam_id)
         res == IF cleaned = <<>> THEN NoChange(watch_players)
                ELSE remove_watch_player(watch_players, cleaned)
     IN /\ watch_players' = res.table
        /\ last_cmd' = Cmd("untrackplayer", steam_id, res)
  /\ UNCHANGED <<caches, tracking_enabled, watch_clans, clan_metric_history,
                 now, pc, todo, metric_key, rows, player_rows_cache,
                 alert_count, counters, awaited, last, sends, trend_embed>>
  /\ UNCHANGED <<cycle_log, toggles, tasks, aside>>

\* The seeding loops of init_db(): INSERT OR IGNORE of every configured
\* key, in the order of the configuration.
RECURSIVE init_db_seed(_, _)
init_db_seed(acc, keys) ==
  IF keys = <<>> \/ acc.raised THEN acc
  ELSE init_db_seed(insert_or_ignore(acc.table, Head(keys)), Tail(keys))

\* The process is started again: the module state is fresh, the database
\* file is the one the last run left behind, and init_db() seeds the watch
\* tables once more.
Restart(clan_names, player_ids) ==
  /\ clan_names \in Orderings(settings_watch_clan_names)
  /\ player_ids \in Orderings(settings_watch_player_ids)
  /\ LET clans == init_db_seed(NoChange(watch_clans),
                               [i \in DOMAIN clan_names |-> lower(clan_names[i])])
         players == init_db_seed(NoChange(watch_players), player_ids)
     IN /\ watch_clans' = clans.table
        /\ watch_players' = players.table
        /\ last_cmd' = Cmd("restart", <<>>,
                           [raised |-> clans.raised \/ players.raised])
  /\ LAST_CLAN_METRIC_VALUES' = EmptyCache
  /\ WATCH_CLAN_LAST_VALUES' = EmptyCache
  /\ WATCH_PLAYER_LAST_VALUES' = EmptyCache
  /\ tracking_enabled' = FALSE
  /\ pc' = "idle"
  /\ todo' = {}
  /\ metric_key' = ""
  /\ rows' = <<>>
  /\ player_rows_cache' = [g \in {} |-> <<>>]
  /\ alert_count' = 0
  /\ awaited' = FALSE
  /\ last' = NoCall
  /\ sends' = NoSends
  /\ UNCHANGED <<clan_metric_history, now, counters, trend_embed>>
  /\ cycle_log' = NoLog
  /\ toggles' = 0
  /\ suspended' = NoTask
  /\ loop_started' = FALSE
  /\ UNCHANGED aside

\* ----------------------------------------------------------- specification
Next ==
  \/ StartCycle(METRICS, MaxCycles)
  \/ \E m \in DOMAIN METRICS : FetchNoRows(m)
  \/ \E m \in DOMAIN METRICS : \E batch \in ClanBatches(m, METRICS[m].sortBy) :
       FetchRows(m, batch, MaxFetches)
  \/ \E fail \in FailSets(2) : DetectSpikes(METRICS, ALERT_THRESHOLDS, fail)
  \/ SkipSpikes(ALERT_THRESHOLDS)
  \/ \E fail \in FailSets(2) : WatchClans(METRICS, fail)
  \/ SkipWatchClans
  \/ PlayerFetchRaises(METRICS)
  \/ \E fetched \in PlayerBatches : \E fail \in FailSets(2) :
       WatchPlayers(METRICS, fetched, fail)
  \/ SkipWatchPlayers
  \/ FinishCycle(METRICS)
  \/ Toggle

Spec == Init /\ [][Next]_vars

\* ---------------------------------------------------------------- scenario
\* The poll cycle on the tables of a scenario: one metric M with the
\* threshold 100, one clan A that is not the bot's own, a sink that accepts
\* every send, tracking off.
ScenarioMETRICS == [m \in {"M"} |-> [group |-> "g", sortBy |-> "m"]]

ScenarioThresholds == [m \in {"M"} |-> 100]

ClanA == <<"A">>

ScenarioBatches ==
  { << ClanRow(ClanA, NoStr, Num(1), << <<"m", Num(v)>> >>) >> :
      v \in {50, 190, 200} }

NextScenario ==
  \/ StartCycle(ScenarioMETRICS, ScenarioCycles)
  \/ \E batch \in ScenarioBatches : FetchRows("M", batch, ScenarioCycles)
  \/ DetectSpikes(ScenarioMETRICS, ScenarioThresholds, {})
  \/ SkipWatchClans
  \/ SkipWatchPlayers
  \/ FinishCycle(ScenarioMETRICS)

SpecScenario == Init /\ [][NextScenario]_vars

\* ------------------------------------------------------------------- trend
\* The poll cycle of a trend metric, the trend command and the passing of
\* time.  Tracking stays off.
TrendMETRICS == [m \in {"looted_hackable"} |-> METRICS[m]]

\* Leaderboards of six clans a..f.  Polled in this order they give each clan
\* a gain; e stands twice in the last one.
TrendRow(c, rank, v) ==
  ClanRow(<<c>>, NoStr, rank, << <<"looted_hackablecrate", Num(v)>> >>)

TrendBatches ==
  { << TrendRow("a", Num(1), 1), TrendRow("b", Num(2), 1),
       TrendRow("c", Num(3), 1), TrendRow("d", Num(4), 1),
       TrendRow("e", None, 1) >>,
    << TrendRow("f", Num(1), 1), TrendRow("a", Num(2), 3),
       TrendRow("b", Num(3), 3), TrendRow("c", Num(4), 2),
       TrendRow("d", Num(5), 2) >>,
    << TrendRow("e", Num(1), 2), TrendRow("f", Num(2), 4),
       TrendRow("e", Num(3), 5) >> }

\* The time that passes between two cycles when the bot is down: one
\* second less than the trend window, or one second more.
QuietSeconds == {TREND_HOURS * 3600 - 1, TREND_HOURS * 3600 + 1}

NextTrend ==
  \/ StartCycle(TrendMETRICS, TrendCycles)
  \/ \E batch \in TrendBatches :
       FetchRows("looted_hackable", batch, TrendCycles)
  \/ DetectSpikes(TrendMETRICS, ALERT_THRESHOLDS, {})
  \/ SkipWatchClans
  \/ SkipWatchPlayers
  \/ FinishCycle(TrendMETRICS)
  \/ InitTrendMessage(TrendMETRICS)
  \/ \E seconds \in QuietSeconds : Tick(seconds, MaxClock)

SpecTrend == Init /\ [][NextTrend]_vars

\* ---------------------------------------------------------------- registry
\* The poll cycle of one metric together with the registry commands.
RegistryMETRICS == [m \in {"looted_hackable"} |-> METRICS[m]]

\* The names and ids the commands are given: missing, blank, in another
\* letter case, padded, invalid.
ClanNameInputs == {NoStr, Blank, Ze, zePadded, WA}

SteamIdInputs == {Blank, P72Padded, P73, <<"7", "x">>}

\* One response of the player leaderboard.
RegistryPlayerRows ==
  << PlayerRow(P72Padded, Ze, Num(2), << <<"looted_crate", Num(1)>> >>),
     PlayerRow(P73, NoStr, Num(3), << <<"looted_crate", Num(1)>> >>) >>

NextRegistry ==
  \/ StartCycle(RegistryMETRICS, RegistryCycles)
  \/ FetchRows("looted_hackable", HighBatch("looted_hackablecrate"),
               RegistryCycles)
  \/ DetectSpikes(RegistryMETRICS, ALERT_THRESHOLDS, {})
  \/ WatchClans(RegistryMETRICS, {})
  \/ SkipWatchClans
  \/ WatchPlayers(RegistryMETRICS, RegistryPlayerRows, {})
  \/ SkipWatchPlayers
  \/ FinishCycle(RegistryMETRICS)
  \/ Toggle
  \/ \E clan_name \in ClanNameInputs : TrackClan(clan_name)
  \/ \E clan_name \in ClanNameInputs : UntrackClan(clan_name)
  \/ \E steam_id \in SteamIdInputs : TrackPlayer(steam_id)
  \/ \E steam_id \in SteamIdInputs : UntrackPlayer(steam_id)
  \/ \E clan_names \in Orderings(settings_watch_clan_names),
        player_ids \in Orderings(settings_watch_player_ids) :
       Restart(clan_names, player_ids)

SpecRegistry == Init /\ [][NextRegistry]_vars

\* ------------------------------------------------------------------ faults
\* The poll cycle with the failures of its fetches and of its deliveries,
\* and /toggle.  The alert sends succeed.
FaultBatches(m) ==
  IF m = "looted_hackable"
  THEN {LowBatch(METRICS[m].sortBy), HighBatch(METRICS[m].sortBy),
        LongBatch(METRICS[m].sortBy)}
  ELSE {LowBatch(METRICS[m].sortBy)}

NextFaults ==
  \/ StartCycle(METRICS, FaultCycles)
  \/ \E m \in DOMAIN METRICS : FetchNoRows(m)
  \/ \E m \in DOMAIN METRICS : \E batch \in FaultBatches(m) :
       FetchRows(m, batch, 2 * FaultCycles)
  \/ DetectSpikes(METRICS, ALERT_THRESHOLDS, {})
  \/ SkipSpikes(ALERT_THRESHOLDS)
  \/ WatchClans(METRICS, {})
  \/ SkipWatchClans
  \/ PlayerFetchRaises(METRICS)
  \/ \E fetched \in PlayerBatches : WatchPlayers(METRICS, fetched, {})
  \/ SkipWatchPlayers
  \/ UpdateLeaderboard({"delivered", "resent"})
  \/ LeaderboardSendRaises
  \/ UpdateTrend(METRICS)
  \/ TrendSendRaises(METRICS)
  \/ Toggle

SpecFaults == Init /\ [][NextFaults]_vars

\* ---------------------------------------------------------------- progress
\* The same cycle with leaderboards of one row, under the scheduling of the
\* event loop.
ProgressBatches(m) ==
  { << ClanRow(Ze, NoStr, Num(1), << <<METRICS[m].sortBy, Num(1)>> >>) >> }

ProgressPlayers ==
  { <<>>, << PlayerRow(P72, Ze, Num(1), << <<"looted_crate", Num(1)>> >>) >> }

NextProgress ==
  \/ StartCycle(METRICS, ProgressCycles)
  \/ \E m \in DOMAIN METRICS : FetchNoRows(m)
  \/ \E m \in DOMAIN METRICS : \E batch \in ProgressBatches(m) :
       FetchRows(m, batch, 2 * ProgressCycles)
  \/ DetectSpikes(METRICS, ALERT_THRESHOLDS, {})
  \/ SkipSpikes(ALERT_THRESHOLDS)
  \/ WatchClans(METRICS, {})
  \/ SkipWatchClans
  \/ PlayerFetchRaises(METRICS)
  \/ \E fetched \in ProgressPlayers : WatchPlayers(METRICS, fetched, {})
  \/ SkipWatchPlayers
  \/ UpdateLeaderboard({"delivered", "resent"})
  \/ LeaderboardSendRaises
  \/ UpdateTrend(METRICS)
  \/ TrendSendRaises(METRICS)
  \/ Toggle

\* The steps of a cycle up to the leaderboard view.  The event loop resumes
\* a cycle when the call it awaits returns or raises, and the fetches block
\* until they return: a cycle that can take one of these steps takes one.
CycleProgress ==
  \/ \E m \in DOMAIN METRICS : FetchNoRows(m)
  \/ \E m \in DOMAIN METRICS : \E batch \in ProgressBatches(m) :
       FetchRows(m, batch, 2 * ProgressCycles)
  \/ DetectSpikes(METRICS, ALERT_THRESHOLDS, {})
  \/ SkipSpikes(ALERT_THRESHOLDS)
  \/ WatchClans(METRICS, {})
  \/ SkipWatchClans
  \/ PlayerFetchRaises(METRICS)
  \/ \E fetched \in ProgressPlayers : WatchPlayers(METRICS, fetched, {})
  \/ SkipWatchPlayers
  \/ UpdateLeaderboard({"delivered", "resent"})
  \/ LeaderboardSendRaises

\* The call of the trend view returns or raises: a cycle does not stay at
\* the trend view for ever.  UpdateTrend and TrendSendRaises are enabled
\* exactly when pc = "trend" and both leave it, so this is weak fairness of
\* the two, written by its meaning.
TrendCallReturns == []<>(pc # "trend")

\* A cycle at the trend view can take its step.
TrendStepEnabled ==
  pc = "trend" => ENABLED (UpdateTrend(METRICS) \/ TrendSendRaises(METRICS))

SpecProgress ==
  Init /\ [][NextProgress]_vars /\ WF_vars(CycleProgress) /\ TrendCallReturns

\* ----------------------------------------------------------------- startup
\* on_ready and the loop it starts.  on_ready starts periodic_update, whose
\* first iteration is due at once and runs as a task of its own, and then
\* awaits post_walobots_update itself.  A call of post_walobots_update that
\* awaits gives way to the other task; the one that gave way is kept in
\* suspended, the other one runs in the variables of the cycle.
Running ==
  [pc |-> pc, todo |-> todo, metric_key |-> metric_key, rows |-> rows,
   player_rows_cache |-> player_rows_cache, alert_count |-> alert_count,
   awaited |-> awaited, cycle_log |-> cycle_log]

\* post_walobots_update is entered by owner.
EnterCycle(metrics, owner) ==
  /\ pc' = "loop"
  /\ todo' = DOMAIN metrics
  /\ player_rows_cache' = [g \in {} |-> <<>>]
  /\ alert_count' = 0
  /\ cycles' = cycles + 1
  /\ now' = now + 1
  /\ awaited' = FALSE
  /\ sends' = NoSends
  /\ cycle_log' = NewLog(metrics, owner, cycle_log)
  /\ UNCHANGED <<caches, tracking_enabled, registry, clan_metric_history,
                 metric_key, rows, fetches, last, last_cmd, trend_embed,
                 toggles>>

\* on_ready: periodic_update.start() unless the loop is running, then
\* await post_walobots_update(bot).
OnReady(metrics, max_cycles) ==
  /\ pc = "idle"
  /\ channel_usable(channel.kind)
  /\ suspended = NoTask
  /\ cycles < max_cycles
  /\ loop_started' = TRUE
  /\ UNCHANGED aside
  /\ suspended' = NoTask
  /\ EnterCycle(metrics, "on_ready")

\* An iteration of periodic_update is due and the event loop is free: no
\* cycle is in progress, or the one in progress awaits.  The loop does not
\* start an iteration before its last one returned.
PeriodicUpdate(metrics, max_cycles) ==
  /\ loop_started
  /\ channel_usable(channel.kind)
  /\ cycles < max_cycles
  /\ suspended = NoTask
  /\ \/ pc = "idle"
     \/ awaited /\ cycle_log.owner # "periodic_update"
  /\ suspended' = IF pc = "idle" THEN NoTask ELSE Running
  /\ UNCHANGED aside
  /\ EnterCycle(metrics, "periodic_update")
  /\ UNCHANGED loop_started

\* The cycle that runs awaits or has returned, and the suspended one goes
\* on.
Resume ==
  /\ suspended # NoTask
  /\ pc = "idle" \/ awaited
  /\ suspended' = IF pc = "idle" THEN NoTask ELSE Running
  /\ UNCHANGED aside
  /\ pc' = suspended.pc
  /\ todo' = suspended.todo
  /\ metric_key' = suspended.metric_key
  /\ rows' = suspended.rows
  /\ player_rows_cache' = suspended.player_rows_cache
  /\ alert_count' = suspended.alert_count
  /\ awaited' = suspended.awaited
  /\ cycle_log' = suspended.cycle_log
  /\ UNCHANGED <<caches, tracking_enabled, registry, clan_metric_history, now,
                 counters, last, sends, last_cmd, trend_embed, toggles,
                 loop_started>>

StartupBatches ==
  {LowBatch("looted_hackablecrate"), HighBatch("looted_hackablecrate")}

NextStartup ==
  \/ OnReady(RegistryMETRICS, StartupCycles)
  \/ PeriodicUpdate(RegistryMETRICS, StartupCycles)
  \/ Resume
  \/ FetchNoRows("looted_hackable")
  \/ \E batch \in StartupBatches :
       FetchRows("looted_hackable", batch, StartupCycles)
  \/ DetectSpikes(RegistryMETRICS, ALERT_THRESHOLDS, {})
  \/ SkipWatchClans
  \/ SkipWatchPlayers
  \/ UpdateLeaderboard({"delivered"})
  \/ UpdateTrend(RegistryMETRICS)

SpecStartup == Init /\ [][NextStartup]_vars

\* ----------------------------------------------------------------- restart
\* The poll cycle of one metric, /toggle and the restart of the process.
\* The sink accepts every send.
RestartBatches ==
  {LowBatch("looted_hackablecrate"), HighBatch("looted_hackablecrate"),
   LongBatch("looted_hackablecrate")}

NextRestart ==
  \/ StartCycle(RegistryMETRICS, RestartCycles)
  \/ \E batch \in RestartBatches :
       FetchRows("looted_hackable", batch, RestartCycles)
  \/ DetectSpikes(RegistryMETRICS, ALERT_THRESHOLDS, {})
  \/ WatchClans(RegistryMETRICS, {})
  \/ SkipWatchClans
  \/ WatchPlayers(RegistryMETRICS, RegistryPlayerRows, {})
  \/ SkipWatchPlayers
  \/ FinishCycle(RegistryMETRICS)
  \/ Toggle
  \/ \E clan_names \in Orderings(settings_watch_clan_names),
        player_ids \in Orderings(settings_watch_player_ids) :
       Restart(clan_names, player_ids)

SpecRestart == Init /\ [][NextRestart]_vars

\* -------------------------------------------------------------- properties
\* The properties read the record of the last consumer call.  What a call
\* should have observed is computed here from the call's rows, directly from
\* the conditions of the source, and compared with what the call did.

\* The cache a consumer works on.
CacheOf(op) ==
  CASE op = "spike" -> LAST_CLAN_METRIC_VALUES
    [] op = "clan" -> WATCH_CLAN_LAST_VALUES
    [] op = "player" -> WATCH_PLAYER_LAST_VALUES
    [] OTHER -> EmptyCache

Max(S) == CHOOSE x \in S : \A y \in S : y <= x

\* The earlier observations of the key of observation i in the same call.
Earlier(i) ==
  {j \in 1..(i - 1) : last.events[j].key = last.events[i].key}

\* Observation i found a value stored for its key: one that was in the cache
\* when the call began, or one an earlier observation of the call stored.
SeenBefore(i) ==
  last.events[i].key \in DOMAIN last.pre \/ Earlier(i) # {}

\* The value stored for the key of observation i when it was made.
Prior(i) ==
  IF Earlier(i) # {} THEN last.events[Max(Earlier(i))].cur
  ELSE last.pre[last.events[i].key]

\* The last observation of the call with the key of observation i.
LastOf(i) ==
  Max({j \in DOMAIN last.events : last.events[j].key = last.events[i].key})

\* A value float() accepts.
IsNumeric(raw) == raw.t \in {"num", "numstr"}

\* The name and the steam id a row carries.
NameOf(row) == strip(IF row.name # <<>> THEN row.name ELSE row.clanName)
IdOf(row) == strip(row.steamId)

\* The subsequence of s at the indices in I.
RECURSIVE PickFrom(_, _, _)
PickFrom(s, I, i) ==
  IF i > Len(s) THEN <<>>
  ELSE (IF i \in I THEN <<s[i]>> ELSE <<>>) \o PickFrom(s, I, i + 1)

Pick(s, I) == PickFrom(s, I, 1)

RECURSIVE Flatten(_)
Flatten(ss) == IF ss = <<>> THEN <<>> ELSE Head(ss) \o Flatten(Tail(ss))

\* The rows of the last call the spike detector has to log: named, with a
\* numeric sort-field value, among the first TREND_TOP_N.
SpikeRows ==
  {i \in DOMAIN last.rows :
     /\ i <= TREND_TOP_N
     /\ NameOf(last.rows[i]) # <<>>
     /\ IsNumeric(dict_get(last.rows[i].stats, last.sort_by))}

\* The rows of the last call the clan watch has to diff.
WatchedClanRows ==
  {i \in DOMAIN last.rows :
     /\ NameOf(last.rows[i]) # <<>>
     /\ \E c \in last.reg : lower(c) = lower(NameOf(last.rows[i]))}

\* The rows of the last call the player watch has to diff.
TrackedPlayerRows ==
  {i \in DOMAIN last.rows :
     /\ IdOf(last.rows[i]) # <<>>
     /\ \/ IdOf(last.rows[i]) \in last.reg
        \/ IdOf(last.rows[i]) \in DOMAIN settings_player_clan_overrides}

\* The <<key, value>> pairs of the numeric stats of a row, in order.
NumericStats(group, subject, stats) ==
  Pick([j \in DOMAIN stats |-> <<<<group, subject, stats[j][1]>>, stats[j][2].v>>],
       {j \in DOMAIN stats : IsNumeric(stats[j][2])})

\* The <<key, value>> pairs the last call has to observe, in order.
ExpectedObs ==
  CASE last.op = "spike" ->
         Pick([i \in DOMAIN last.rows |->
                 <<<<last.metric_key, NameOf(last.rows[i])>>,
                   dict_get(last.rows[i].stats, last.sort_by).v>>],
              SpikeRows)
    [] last.op = "clan" ->
         Flatten([i \in DOMAIN last.rows |->
                    IF i \in WatchedClanRows
                    THEN NumericStats(last.group, lower(NameOf(last.rows[i])),
                                      last.rows[i].stats)
                    ELSE <<>>])
    [] last.op = "player" ->
         Flatten([i \in DOMAIN last.rows |->
                    IF i \in TrackedPlayerRows
                    THEN NumericStats(last.group, IdOf(last.rows[i]),
                                      last.rows[i].stats)
                    ELSE <<>>])
    [] OTHER -> <<>>

\* The <<key, value>> pairs the last call observed, in order.
Observed ==
  [i \in DOMAIN last.events |-> <<last.events[i].key, last.events[i].cur>>]

Range(f) == {f[x] : x \in DOMAIN f}

\* C1: in all three caches, the first observation of a key never sends an
\* alert, whatever its value: a send is attempted (and so an alert
\* delivered) only by an observation that found a value stored for exactly
\* that key.
C1_FirstObservationNeverAlerts ==
  \A i \in DOMAIN last.events :
    (last.events[i].attempted \/ last.events[i].delivered) => SeenBefore(i)

\* A first observation in the spike detector of a clan that is not exempt,
\* with a value at or above the threshold, and no send.
C1_Witness ==
  /\ last.op = "spike"
  /\ \E i \in DOMAIN last.events :
       /\ ~SeenBefore(i)
       /\ last.events[i].cur >= ALERT_THRESHOLDS[last.metric_key]
       /\ lower(last.events[i].shown) # lower(settings_clan_name)
       /\ ~last.events[i].attempted

\* C2: an observation of a key that has a stored value computes the delta
\* current - stored, and after the call the cache holds, for every key
\* observed, the value of its last observation, whether that observation
\* was the first or a later one, went up or down, alerted or not.
C2_DeltaAndCacheWrite ==
  \A i \in DOMAIN last.events :
    /\ SeenBefore(i) => last.events[i].delta = last.events[i].cur - Prior(i)
    /\ last.events[i].key \in DOMAIN CacheOf(last.op)
    /\ CacheOf(last.op)[last.events[i].key] = last.events[LastOf(i)].cur

\* A player stat observed below its stored value: the delta is negative,
\* nothing is sent and the cache holds the lower value.
C2_Witness ==
  /\ last.op = "player"
  /\ \E i \in DOMAIN last.events :
       /\ SeenBefore(i)
       /\ LastOf(i) = i
       /\ last.events[i].cur < Prior(i)
       /\ last.events[i].delta < 0
       /\ ~last.events[i].attempted
       /\ WATCH_PLAYER_LAST_VALUES[last.events[i].key] = last.events[i].cur

\* C3: in the spike detector, an observation of a named row among the first
\* TREND_TOP_N with a numeric value and a stored value attempts a send iff
\* current - stored >= the metric's threshold and the clan's name differs,
\* case-insensitively, from settings.clan_name; an alert is delivered only
\* when a send was attempted.
C3_SpikeAlertIff ==
  last.op = "spike" =>
    /\ Observed = ExpectedObs
    /\ \A i \in DOMAIN last.events :
         /\ SeenBefore(i) =>
              (last.events[i].attempted <=>
                 /\ last.events[i].cur - Prior(i)
                      >= ALERT_THRESHOLDS[last.metric_key]
                 /\ lower(last.events[i].key[2]) # lower(settings_clan_name))
         /\ last.events[i].delivered => last.events[i].attempted

\* One call in which a clan's increase equals the threshold and is sent,
\* and the own clan's increase reaches the threshold and is not.
C3_Witness ==
  /\ last.op = "spike"
  /\ \E i, j \in DOMAIN last.events :
       /\ SeenBefore(i)
       /\ last.events[i].cur - Prior(i) = ALERT_THRESHOLDS[last.metric_key]
       /\ last.events[i].attempted
       /\ SeenBefore(j)
       /\ last.events[j].cur - Prior(j) >= ALERT_THRESHOLDS[last.metric_key]
       /\ lower(last.events[j].key[2]) = lower(settings_clan_name)
       /\ last.events[j].key[2] # settings_clan_name
       /\ ~last.events[j].attempted

\* C4: the clan watch observes exactly the numeric stats of the rows whose
\* name matches a watched clan case-insensitively; an observation with a
\* stored value attempts a send iff current - stored > 0, with no threshold;
\* the cache entries of clans that are not watched are left as they were.
C4_ClanWatchAlertIff ==
  last.op = "clan" =>
    /\ Observed = ExpectedObs
    /\ \A i \in DOMAIN last.events :
         /\ SeenBefore(i) =>
              (last.events[i].attempted <=> last.events[i].cur - Prior(i) > 0)
         /\ last.events[i].delivered => last.events[i].attempted
    /\ \A k \in DOMAIN WATCH_CLAN_LAST_VALUES :
         (\A c \in last.reg : lower(c) # k[2]) =>
           /\ k \in DOMAIN last.pre
           /\ WATCH_CLAN_LAST_VALUES[k] = last.pre[k]

\* A watched clan, spelled in another letter case than in the registry, goes
\* up by less than the threshold of the metric and the send is attempted,
\* in a batch that also has a row of a clan that is not watched.
C4_Witness ==
  /\ last.op = "clan"
  /\ last.metric_key \in DOMAIN ALERT_THRESHOLDS
  /\ \E i \in DOMAIN last.events :
       /\ SeenBefore(i)
       /\ last.events[i].cur - Prior(i) < ALERT_THRESHOLDS[last.metric_key]
       /\ last.events[i].attempted
       /\ last.events[i].shown \notin last.reg
  /\ \E r \in DOMAIN last.rows :
       NameOf(last.rows[r]) # <<>> /\ r \notin WatchedClanRows

\* The values of the snapshots of clan A logged so far, in order: one per
\* poll cycle of the scenario.
ValuesOfA ==
  [i \in DOMAIN clan_metric_history |-> clan_metric_history[i].value]

SendsOfLast == {i \in DOMAIN last.events : last.events[i].attempted}

\* C5: with threshold 100 and clan A observed at 50, 200 and 190 in three
\* consecutive poll cycles, cycle 1 sends nothing, cycle 2 sends exactly one
\* spike alert and appends exactly one snapshot of A, cycle 3 sends nothing
\* and leaves the cached value of (M, A) at 190.
C5_ThreeCycleScenario ==
  /\ (now = 1 /\ ValuesOfA = <<50>>) =>
       /\ SendsOfLast = {}
       /\ alert_count = 0
  /\ (now = 2 /\ ValuesOfA = <<50, 200>>) =>
       /\ Cardinality(SendsOfLast) = 1
       /\ \A i \in SendsOfLast : last.events[i].delivered
       /\ last.ret = 1
       /\ alert_count = 1
       /\ Len(last.snaps) = 1
       /\ last.snaps[1].clan_name = ClanA
       /\ last.snaps[1].value = 200
  /\ (now = 3 /\ ValuesOfA = <<50, 200, 190>>) =>
       /\ SendsOfLast = {}
       /\ last.ret = 0
       /\ alert_count = 0
       /\ LAST_CLAN_METRIC_VALUES[<<"M", ClanA>>] = 190

\* The third cycle of the scenario has run.
C5_Witness ==
  /\ now = 3
  /\ ValuesOfA = <<50, 200, 190>>
  /\ last.ts = 3
  /\ pc = "idle"
  /\ LAST_CLAN_METRIC_VALUES[<<"M", ClanA>>] = 190

\* The snapshots the last call of the spike detector has to append.
ExpectedSnaps ==
  Pick([i \in DOMAIN last.rows |->
          [metric_key |-> last.metric_key,
           clan_name |-> NameOf(last.rows[i]),
           ts |-> last.ts,
           rank |-> IF last.rows[i].rank.t = "none" THEN None
                    ELSE Num(last.rows[i].rank.v),
           value |-> dict_get(last.rows[i].stats, last.sort_by).v]],
       SpikeRows)

C7_UnparsableIsSkipped ==
  LET numeric == Range(ExpectedObs)
      cache == CacheOf(last.op)
      logged == IF last.op = "spike" THEN SpikeRows ELSE {}
  IN
  /\ \A k \in DOMAIN cache :
       (k \notin DOMAIN last.pre \/ cache[k] # last.pre[k]) =>
         <<k, cache[k]>> \in numeric
  /\ \A i \in DOMAIN last.events :
       <<last.events[i].key, last.events[i].cur>> \in numeric
  /\ Len(last.snaps) = Cardinality(logged)
  /\ \A n \in DOMAIN last.snaps :
       \E i \in logged :
         /\ last.snaps[n].clan_name = NameOf(last.rows[i])
         /\ last.snaps[n].value = dict_get(last.rows[i].stats, last.sort_by).v

\* A named row among the first TREND_TOP_N whose sort-field value is not a
\* number: the call logged other rows, and the cache has no entry for the
\* row's key.
C7_Witness ==
  /\ last.op = "spike"
  /\ Len(last.snaps) > 0
  /\ \E i \in DOMAIN last.rows :
       /\ i <= TREND_TOP_N
       /\ NameOf(last.rows[i]) # <<>>
       /\ dict_get(last.rows[i].stats, last.sort_by) = Junk
       /\ <<last.metric_key, NameOf(last.rows[i])>>
            \notin DOMAIN LAST_CLAN_METRIC_VALUES

Rerun ==
  CASE last.op = "spike" ->
         log_top_and_detect_spikes(ALERT_THRESHOLDS, last.metric_key, last.rows,
                                   last.sort_by, last.ts, {}, last.pre)
    [] last.op = "clan" ->
         track_watch_clan_all_stats(last.group, last.rows, last.reg, {},
                                    last.pre)
    [] last.op = "player" ->
         track_watch_players_all_stats(last.group, last.rows, last.reg,
                                       settings_player_clan_overrides, {},
                                       last.pre)
    [] OTHER -> Acc(EmptyCache)

\* C9: a send that raises is absorbed.  The call returns normally and leaves
\* the cache, the snapshots and the observations it would have left had
\* every send succeeded; it returns the number of sends that succeeded, and
\* so does the cycle's alert_count; the cycle ends only when every metric
\* was visited.
C9_SendFailureAbsorbed ==
  LET rerun == Rerun
  IN
  /\ ~last.raised
  /\ CacheOf(last.op) = rerun.cache
  /\ last.snaps = rerun.snaps
  /\ Len(last.events) = Len(rerun.events)
  /\ \A i \in DOMAIN last.events :
       [last.events[i] EXCEPT !.delivered = TRUE]
         = [rerun.events[i] EXCEPT !.delivered = TRUE]
  /\ last.ret = Cardinality({i \in DOMAIN last.events : last.events[i].delivered})
  /\ alert_count = sends.attempted - sends.failed
  /\ pc = "idle" => todo = {}

\* In the first cycle the one send of the clan watch of looted_hackable
\* raised; the stat after it in the row was still stored, and the clan
\* watch of looted_crates, the next metric, made its observations.
C9_Witness ==
  /\ cycles = 1
  /\ sends.attempted = 1
  /\ sends.failed = 1
  /\ sends.failed_in = {"looted_hackable"}
  /\ alert_count = 0
  /\ last.op = "clan"
  /\ last.metric_key = "looted_crates"
  /\ Len(last.events) > 0
  /\ <<"looted", ze, "looted_barrel">> \in DOMAIN last.pre
  /\ \A r \in DOMAIN last.rows :
       \A j \in DOMAIN last.rows[r].stats :
         last.rows[r].stats[j][1] # "looted_barrel"

\* C10: the player watch observes exactly the numeric stats of the rows
\* whose steam id is non-empty and is in the registry of watched players or
\* a key of settings.player_clan_overrides; an observation with a stored
\* value attempts a send iff current - stored > 0; the cache entries of
\* other players are left as they were.
C10_PlayerTrackedIff ==
  last.op = "player" =>
    /\ Observed = ExpectedObs
    /\ \A i \in DOMAIN last.events :
         /\ SeenBefore(i) =>
              (last.events[i].attempted <=> last.events[i].cur - Prior(i) > 0)
         /\ ~SeenBefore(i) => ~last.events[i].attempted
    /\ \A k \in DOMAIN WATCH_PLAYER_LAST_VALUES :
         (k[2] \notin last.reg
            /\ k[2] \notin DOMAIN settings_player_clan_overrides) =>
           /\ k \in DOMAIN last.pre
           /\ WATCH_PLAYER_LAST_VALUES[k] = last.pre[k]

\* A player with an override and no registry entry went up and the send was
\* attempted, in a batch with a player that is neither watched nor
\* overridden and a row without steam id.
C10_Witness ==
  /\ last.op = "player"
  /\ \E i \in DOMAIN last.events :
       /\ last.events[i].key[2] \notin last.reg
       /\ last.events[i].key[2] \in DOMAIN settings_player_clan_overrides
       /\ SeenBefore(i)
       /\ last.events[i].attempted
  /\ \E r \in DOMAIN last.rows :
       IdOf(last.rows[r]) # <<>> /\ r \notin TrackedPlayerRows
  /\ \E r \in DOMAIN last.rows : IdOf(last.rows[r]) = <<>>

\* C11: the clan label of a player-watch alert is the player's override
\* label if the player has one, else the clan label of the row if that is
\* not empty, else "Unknown"; an override wins over the label of the row.
Unknown == <<"U", "n", "k", "n", "o", "w", "n">>

LabelOf(row) ==
  IF IdOf(row) \in DOMAIN settings_player_clan_overrides
  THEN settings_player_clan_overrides[IdOf(row)]
  ELSE IF row.clanName # <<>> THEN row.clanName ELSE Unknown

\* The rows of the last call a player alert may come from: those of the
\* player that carry the stat with a parsable value.
RowsOfEvent(e) ==
  {r \in TrackedPlayerRows :
     /\ IdOf(last.rows[r]) = e.key[2]
     /\ \E s \in DOMAIN last.rows[r].stats :
          /\ last.rows[r].stats[s][1] = e.key[3]
          /\ IsNumeric(last.rows[r].stats[s][2])}

C11_PlayerAlertLabel ==
  last.op = "player" =>
    \A i \in DOMAIN last.events :
      LET e == last.events[i]
      IN /\ \E r \in RowsOfEvent(e) : e.label = LabelOf(last.rows[r])
         /\ e.key[2] \in DOMAIN settings_player_clan_overrides =>
              e.label = settings_player_clan_overrides[e.key[2]]

C11_Witness ==
  /\ last.op = "player"
  /\ \E i \in DOMAIN last.events :
       /\ last.events[i].attempted
       /\ last.events[i].key[2] \in DOMAIN settings_player_clan_overrides
       /\ \E r \in RowsOfEvent(last.events[i]) :
            /\ last.rows[r].clanName # <<>>
            /\ last.rows[r].clanName # last.events[i].label
  /\ \E i \in DOMAIN last.events :
       /\ last.events[i].attempted
       /\ last.events[i].key[2] \notin DOMAIN settings_player_clan_overrides
       /\ last.events[i].label = Ze
  /\ \E i \in DOMAIN last.events :
       /\ last.events[i].attempted
       /\ last.events[i].label = Unknown

\* C12: after add_watch_clan(n) with a non-empty n the list of watched
\* clans holds lower(n), whatever the letter case of n; after
\* remove_watch_clan(m) it holds no name equal to m up to letter case;
\* whatever adds and removes came before.
C12_RegistryRoundTrip ==
  LET cleaned == strip(last_cmd.arg)
  IN /\ (last_cmd.op = "track" /\ cleaned # <<>>) =>
          lower(cleaned) \in get_watch_clans
     /\ (last_cmd.op = "untrack" /\ cleaned # <<>>) =>
          \A m \in get_watch_clans : lower(m) # lower(cleaned)

\* "ze" was removed and added again (it is seeded first and now stands
\* behind "wa"), and is removed under a name in another letter case.
C12_Witness ==
  /\ last_cmd.op = "untrack"
  /\ last_cmd.arg = Ze
  /\ last_cmd.clans = <<lower(WA), ze>>
  /\ get_watch_clans = {lower(WA)}

\* C13: adding a clan or player that is watched and removing one that is
\* not watched raise no error and leave the watch tables as they were, and
\* no table ever holds a subject twice.
NoDuplicates(table) ==
  \A i, j \in DOMAIN table : table[i] = table[j] => i = j

C13_IdempotentAddRemove ==
  LET cleaned == strip(last_cmd.arg)
      unchanged == watch_clans = last_cmd.clans /\ watch_players = last_cmd.players
  IN /\ ~last_cmd.raised
     /\ NoDuplicates(watch_clans)
     /\ NoDuplicates(watch_players)
     /\ (last_cmd.op = "track" /\ lower(cleaned) \in Rows(last_cmd.clans)) =>
          unchanged
     /\ (last_cmd.op = "untrack" /\ lower(cleaned) \notin Rows(last_cmd.clans)) =>
          unchanged
     /\ (last_cmd.op = "trackplayer" /\ cleaned \in Rows(last_cmd.players)) =>
          unchanged
     /\ (last_cmd.op = "untrackplayer" /\ cleaned \notin Rows(last_cmd.players)) =>
          unchanged
     /\ ( /\ last_cmd.op = "restart"
          /\ \A c \in settings_watch_clan_names : lower(c) \in Rows(last_cmd.clans)
          /\ settings_watch_player_ids \subseteq Rows(last_cmd.players) ) =>
          unchanged

\* A clan that is watched is added again under another letter case.
C13_Witness ==
  /\ last_cmd.op = "track"
  /\ last_cmd.arg = Ze
  /\ ze \in Rows(last_cmd.clans)
  /\ Len(last_cmd.clans) = 2
  /\ watch_clans = last_cmd.clans

\* C14: every name in the table of watched clans is lowercase, seeded or
\* added, and the clan watch compares lowercased names, so no two table
\* entries and no two subjects of the clan-watch cache differ in letter
\* case only.
C14_RegistryLowercase ==
  /\ \A n \in Rows(watch_clans) : n = lower(n)
  /\ \A i, j \in DOMAIN watch_clans :
       lower(watch_clans[i]) = lower(watch_clans[j]) => i = j
  /\ \A k \in DOMAIN WATCH_CLAN_LAST_VALUES : k[2] = lower(k[2])
  /\ last.op = "clan" =>
       \A i \in DOMAIN last.rows :
         (\E c \in last.reg : c = lower(NameOf(last.rows[i]))) =>
           (LET stats == last.rows[i].stats
            IN \A s \in DOMAIN stats :
                 IsNumeric(stats[s][2]) =>
                   <<last.group, lower(NameOf(last.rows[i])), stats[s][1]>>
                     \in DOMAIN WATCH_CLAN_LAST_VALUES)

\* A clan added in capitals is watched, and rows that name it in capitals
\* and in lowercase were diffed under the one lowercase subject.
C14_Witness ==
  /\ last.op = "clan"
  /\ lower(WA) \in last.reg
  /\ ze \in last.reg
  /\ \E i \in DOMAIN last.rows : NameOf(last.rows[i]) = WA
  /\ \E i \in DOMAIN last.rows : NameOf(last.rows[i]) = Ze
  /\ \E i \in DOMAIN last.rows : NameOf(last.rows[i]) = ze
  /\ \E k \in DOMAIN WATCH_CLAN_LAST_VALUES : k[2] = lower(WA)

\* ------------------------------------------------------------ trend claims
\* The snapshot table as the last build of the trend embed found it.
EmbedHistory == SubSeq(clan_metric_history, 1, trend_embed.seen)

\* The snapshots of metric m with a timestamp in [now - 12 * 3600, now],
\* now being the time of the build.
InWindow(m) ==
  {i \in DOMAIN EmbedHistory :
     /\ EmbedHistory[i].metric_key = m
     /\ EmbedHistory[i].ts >= trend_embed.at - TREND_HOURS * 3600
     /\ EmbedHistory[i].ts <= trend_embed.at}

SubjectsIn(I) == {EmbedHistory[i].clan_name : i \in I}

\* The snapshots of clan among those in I.
Of(clan, I) == {i \in I : EmbedHistory[i].clan_name = clan}

Fields == {trend_embed.fields[i] : i \in DOMAIN trend_embed.fields}

\* C15: the result of get_clan_metric_changes has an entry for a subject
\* if and only if a snapshot of the metric and the subject lies in the
\* window; a subject without one is absent, not zero-filled.
C15_EntryIffSnapshotInWindow ==
  \A f \in Fields :
    /\ {e.clan_name : e \in f.trend} = SubjectsIn(InWindow(f.metric_key))
    /\ Cardinality(f.trend) = Cardinality(SubjectsIn(InWindow(f.metric_key)))

\* A subject with snapshots of the metric, all of them older than the
\* window, next to a subject inside the window.
C15_Witness ==
  \E f \in Fields :
    /\ f.trend # {}
    /\ \E i \in DOMAIN EmbedHistory :
         /\ EmbedHistory[i].metric_key = f.metric_key
         /\ EmbedHistory[i].clan_name \notin SubjectsIn(InWindow(f.metric_key))
         /\ \A e \in f.trend : e.clan_name # EmbedHistory[i].clan_name

\* C16: for each subject of the result, start is the value of a snapshot
\* at the earliest timestamp and end and rank are those of a snapshot at
\* the latest timestamp among the subject's snapshots of the metric in
\* [now - hours * 3600, now]; snapshots outside it have no influence.
RankOf(snapshot) == IF snapshot.rank.t = "none" THEN 0 ELSE snapshot.rank.v

C16_StartAndEndFromWindow ==
  \A f \in Fields :
    \A e \in f.trend :
      LET mine == Of(e.clan_name, InWindow(f.metric_key))
          stamps == {EmbedHistory[i].ts : i \in mine}
      IN /\ mine # {}
         /\ \E i \in mine :
              /\ \A t \in stamps : EmbedHistory[i].ts <= t
              /\ e.start = EmbedHistory[i].value
         /\ \E i \in mine :
              /\ \A t \in stamps : t <= EmbedHistory[i].ts
              /\ e.end = EmbedHistory[i].value
              /\ e.rank = RankOf(EmbedHistory[i])

\* A subject with an older snapshot outside the window whose value is
\* neither start nor end, and with different snapshots at both ends of the
\* window.
C16_Witness ==
  \E f \in Fields :
    \E e \in f.trend :
      /\ e.start # e.end
      /\ \E i \in DOMAIN EmbedHistory :
           /\ EmbedHistory[i].metric_key = f.metric_key
           /\ EmbedHistory[i].clan_name = e.clan_name
           /\ i \notin InWindow(f.metric_key)
           /\ EmbedHistory[i].value \notin {e.start, e.end}

\* C17: clan_metric_history is append-only: every step leaves the
\* snapshots it holds in place and unchanged, also when a later step of
\* the same cycle fails.
C17_SnapshotLogAppendOnly ==
  [][/\ Len(clan_metric_history) <= Len(clan_metric_history')
     /\ SubSeq(clan_metric_history', 1, Len(clan_metric_history))
          = clan_metric_history]_vars

\* Snapshots are on record, more were appended in a later cycle, and a
\* send of that cycle failed.
C17_Witness ==
  /\ cycles = 2
  /\ \E i, j \in DOMAIN clan_metric_history :
       clan_metric_history[i].ts < clan_metric_history[j].ts
  /\ sends.failed > 0

\* C18 as stated: the trend lines of every metric are sorted strictly
\* descending by delta, are at most 5, and none has delta <= 0.
C18_LinesStrictlyDescending ==
  \A f \in Fields :
    /\ \A i, j \in DOMAIN f.lines : i < j => f.lines[i].delta > f.lines[j].delta
    /\ Len(f.lines) <= 5
    /\ \A i \in DOMAIN f.lines : ~(f.lines[i].delta <= 0)

\* C18, amended: the trend lines of every metric are sorted descending by
\* delta (end - start), lines of equal delta in either order, are at most
\* 5, and none has delta <= 0.
C18_LinesDescending ==
  \A f \in Fields :
    /\ \A i, j \in DOMAIN f.lines : i < j => f.lines[i].delta >= f.lines[j].delta
    /\ Len(f.lines) <= 5
    /\ \A i \in DOMAIN f.lines : ~(f.lines[i].delta <= 0)
    /\ \A i \in DOMAIN f.lines :
         \E e \in f.trend : /\ e.clan_name = f.lines[i].clan
                            /\ e.end - e.start = f.lines[i].delta

\* Six subjects gained, two of the five lines have the same delta.
C18_Witness ==
  \E f \in Fields :
    /\ Cardinality({e \in f.trend : e.end - e.start > 0}) = 6
    /\ Len(f.lines) = 5
    /\ \E i, j \in DOMAIN f.lines : i < j /\ f.lines[i].delta = f.lines[j].delta

\* C19: a subject with exactly one snapshot of a metric in the window is
\* in the raw result with start = end, so its delta is 0, and it is in no
\* trend line.
C19_SingleSnapshotHasNoLine ==
  \A f \in Fields :
    \A clan \in SubjectsIn(InWindow(f.metric_key)) :
      Cardinality(Of(clan, InWindow(f.metric_key))) = 1 =>
        /\ \E e \in f.trend : e.clan_name = clan
        /\ \A e \in f.trend :
             e.clan_name = clan => (e.start = e.end /\ e.end - e.start = 0)
        /\ \A i \in DOMAIN f.lines : f.lines[i].clan # clan

\* A subject with one snapshot in the window and an older one outside it,
\* next to fewer than five subjects that gained, one of which has a line.
C19_Witness ==
  \E f \in Fields :
    /\ f.lines # <<>>
    /\ Cardinality({e \in f.trend : e.end - e.start > 0}) < 5
    /\ \E clan \in SubjectsIn(InWindow(f.metric_key)) :
         /\ Cardinality(Of(clan, InWindow(f.metric_key))) = 1
         /\ \E i \in DOMAIN EmbedHistory :
              /\ EmbedHistory[i].clan_name = clan
              /\ i \notin InWindow(f.metric_key)

CycleEnded == pc = "idle" /\ cycle_log.owner # "none"

\* The consumer call recorded last ran in this cycle on metric m.
CalledFor(m) ==
  last.op # "none" /\ last.metric_key = m /\ last.ts = now

\* The snapshots this cycle logged for metric m.
SnapshotsOf(m) ==
  {i \in DOMAIN clan_metric_history :
     /\ clan_metric_history[i].metric_key = m
     /\ clan_metric_history[i].ts = now}

C22_ClanFetchOncePerCycle ==
  /\ \A m \in cycle_log.keys : cycle_log.clan_fetches[m] <= 1
  /\ \A m \in cycle_log.no_rows : cycle_log.clan_fetches[m] = 1
  /\ pc # "idle" =>
       todo = {m \in cycle_log.keys : cycle_log.clan_fetches[m] = 0}

\* A metric whose fetch failed in the cycle before is fetched in this one,
\* and a metric whose fetch failed in this one is not visited again.
C22_Witness ==
  /\ pc = "loop"
  /\ \E m \in cycle_log.failed_before : cycle_log.clan_fetches[m] = 1
  /\ \E m \in cycle_log.no_rows : m \notin todo

\* ------------------------------------------------------------------- C23
\* C23: within one poll cycle the player leaderboard is fetched at most once
\* per upstream group, whatever the outcome of the fetch, and the player
\* watch of every metric of the group runs on the rows of that fetch.
C23_PlayerFetchOncePerGroup ==
  /\ \A g \in DOMAIN cycle_log.player_fetches :
       cycle_log.player_fetches[g] <= 1
  /\ (last.op = "player" /\ last.ts = now /\ cycle_log.owner # "none") =>
       /\ last.group \in DOMAIN player_rows_cache
       /\ last.rows = player_rows_cache[last.group]

\* ------------------------------------------------------------------- C24
\* A step of the poll cycle: the cycle moves on and the process lives on.
CycleStep == pc # "idle" /\ pc' # pc /\ cycle_log' # NoLog

\* The step is a call of the clan watch or of the player watch.
WatchCall(op) == last' # last /\ last'.op = op

C26_ToggleAffectsNextCycleOnly ==
  [][CycleStep =>
       /\ pc = "clan_watch" =>
            (WatchCall("clan") <=> (cycle_log.flag /\ get_watch_clans # {}))
       /\ pc = "player_watch" =>
            ((last' # last \/ cycle_log' # cycle_log)
               <=> (cycle_log.flag /\ PlayerWatchWhateverTheFlag))]_vars

\* ------------------------------------------------------------------- C27
\* C27: a failure of the sink on the leaderboard view (the edit fails and
\* the fallback send fails, or the send fails) does not leave the poll
\* cycle: the cycle goes on to the trend view and delivers it.
C27_LeaderboardFailureContained ==
  cycle_log.views.leaderboard = "raised" =>
    \/ pc = "trend"
    \/ cycle_log.views.trend = "delivered"

\* ------------------------------------------------------------------- C28
\* C28: the tracking flag is disabled when the process starts and changes
\* with /toggle only, each /toggle flipping it in one step: after k toggles
\* since the start of the process the flag is enabled iff k is odd.
C28_FlagIsToggleParity ==
  tracking_enabled <=> toggles = 1

\* The flag was switched on after a restart, while a cycle that started with
\* the flag disabled is in flight.
C28_Witness ==
  /\ tracking_enabled /\ toggles = 1
  /\ last_cmd.op = "restart"
  /\ pc # "idle" /\ ~cycle_log.flag

\* ------------------------------------------------------------------- C29
\* The step leaves a process that was just started: no cycle ran in it and
\* nobody toggled.
StartsProcess ==
  last_cmd'.op = "restart" /\ cycle_log' = NoLog /\ toggles' = 0

\* The alerts the consumer call of this step tries to send.
AlertsOfStep ==
  IF last' = last THEN {}
  ELSE {i \in DOMAIN last'.events : last'.events[i].attempted}

\* C29: after a restart the three last-value caches are empty and the
\* tracking flag is disabled, while the snapshot log and the watch registry
\* keep their contents; the first poll cycle of the restarted process sends
\* no spike alert and no watch alert, whatever it observes.
C29_FirstCycleAfterRestartIsSilent ==
  [][/\ StartsProcess =>
          /\ LAST_CLAN_METRIC_VALUES' = EmptyCache
          /\ WATCH_CLAN_LAST_VALUES' = EmptyCache
          /\ WATCH_PLAYER_LAST_VALUES' = EmptyCache
          /\ ~tracking_enabled'
          /\ clan_metric_history' = clan_metric_history
          /\ Rows(watch_clans) \subseteq Rows(watch_clans')
          /\ Rows(watch_players) \subseteq Rows(watch_players')
     /\ (CycleStep /\ cycle_log'.first) => AlertsOfStep = {}]_vars

\* The same without the last clause.
FreshAfterRestart ==
  [][StartsProcess =>
       /\ LAST_CLAN_METRIC_VALUES' = EmptyCache
       /\ WATCH_CLAN_LAST_VALUES' = EmptyCache
       /\ WATCH_PLAYER_LAST_VALUES' = EmptyCache
       /\ ~tracking_enabled'
       /\ clan_metric_history' = clan_metric_history
       /\ Rows(watch_clans) \subseteq Rows(watch_clans')
       /\ Rows(watch_players) \subseteq Rows(watch_players')]_vars

\* ------------------------------------------------------------------- C25
\* C25: at most one poll cycle is in progress at any time: no cycle, started
\* by the loop or by on_ready, begins or goes on at an await of a cycle that
\* has not run to completion.
C25_OneCycleAtATime ==
  ~(pc # "idle" /\ suspended # NoTask)

\* ------------------------------------------------------------------- C30
\* C30: every poll cycle that starts completes, provided every fetch and
\* every call of the sink returns or raises.
C30_CycleCompletes ==
  (pc # "idle") ~> (pc = "idle")

\* A cycle completed after it fetched every metric once, one fetch failing,
\* and ran both watches.
C30_Witness ==
  /\ CycleEnded
  /\ \A m \in cycle_log.keys : cycle_log.clan_fetches[m] = 1
  /\ cycle_log.no_rows # {}
  /\ last.op = "player" /\ last.ts = now
  /\ cycle_log.views.trend = "delivered"

\* ----------------------------------------------------------------- parsing
\* The values json() yields for a response: objects (the key/value pairs in
\* their order), arrays, strings (their characters), numbers and null.
JDict(pairs) == [t |-> "dict", v |-> pairs]

JList(items) == [t |-> "list", v |-> items]

JStr(chars) == [t |-> "text", v |-> chars]

\* obj[key] for a string key: the value, or the exception the subscript
\* raises (KeyError for a dict without the key, TypeError for everything
\* that is not a dict).
getitem(obj, key) ==
  IF obj.t = "dict"
  THEN IF \E i \in DOMAIN obj.v : obj.v[i][1] = key
       THEN [raised |-> "none", v |-> dict_get(obj.v, key)]
       ELSE [raised |-> "KeyError", v |-> None]
  ELSE [raised |-> "TypeError", v |-> None]

\* list(x): the items of a list, the keys of a dict, the characters of a
\* string; TypeError for what cannot be iterated.
list(x) ==
  CASE x.t = "list" -> [raised |-> "none", v |-> x.v]
    [] x.t = "dict" ->
         [raised |-> "none", v |-> [i \in DOMAIN x.v |-> JStr(<<x.v[i][1]>>)]]
    [] x.t = "text" ->
         [raised |-> "none", v |-> [i \in DOMAIN x.v |-> JStr(<<x.v[i]>>)]]
    [] OTHER -> [raised |-> "TypeError", v |-> <<>>]

\* except (KeyError, TypeError)
parse_caught == {"KeyError", "TypeError"}

\* parse_leaderboard_rows(data): list(data["data"]["entries"]) inside
\* try/except (KeyError, TypeError).  raised is the exception that leaves
\* the function, "none" when it returns.
parse_leaderboard_rows(data) ==
  LET d == getitem(data, "data")
      e == IF d.raised = "none" THEN getitem(d.v, "entries") ELSE d
      l == IF e.raised = "none" THEN list(e.v) ELSE e
  IN IF l.raised = "none" THEN [raised |-> "none", rows |-> l.v]
     ELSE IF l.raised \in parse_caught THEN [raised |-> "none", rows |-> <<>>]
     ELSE [raised |-> l.raised, rows |-> <<>>]

\* The entries a response can carry: up to MaxEntries rows, and what is not
\* a list.
EntryRows ==
  {ClanRow(Ze, NoStr, Num(1), <<>>), ClanRow(WA, NoStr, Num(2), <<>>)}

EntryLists == UNION {[1..n -> EntryRows] : n \in 0..MaxEntries}

EntriesValues ==
  {JList(items) : items \in EntryLists}
    \cup {None, Num(1), JStr(<<>>), JStr(<<"n", "a">>), JDict(<<>>),
          JDict(<< <<"0", Num(1)>>, <<"1", Num(2)>> >>)}

DataValues ==
  {JDict(<< <<"entries", e>> >>) : e \in EntriesValues}
    \cup {JDict(<< <<"total", Num(1)>>, <<"entries", e>> >>) :
            e \in EntriesValues}
    \cup {JDict(<<>>), JDict(<< <<"total", Num(1)>> >>), None, Num(1),
          JStr(<<"n", "a">>), JList(<<>>)}

\* The error response of fetch_leaderboard_for_metric.
ErrorResponse ==
  JDict(<< <<"success", Num(0)>>, <<"error", JStr(<<"e">>)>>,
           <<"data", JDict(<<>>)>> >>)

Responses ==
  {JDict(<< <<"success", Num(1)>>, <<"data", d>> >>) : d \in DataValues}
    \cup {JDict(<< <<"data", d>> >>) : d \in DataValues}
    \cup {JDict(<< <<"data", d>>, <<"total", Num(1)>> >>) : d \in DataValues}
    \cup {ErrorResponse, JDict(<< <<"foo", JStr(<<"b">>)>> >>), JDict(<<>>),
          None, Num(1), JStr(<<"n", "a">>), JList(<<>>)}

\* rows = parse_leaderboard_rows(data)
ParseResponse(data) ==
  /\ parsed' = [data |-> data, rows |-> parse_leaderboard_rows(data).rows,
                raised |-> parse_leaderboard_rows(data).raised]
  /\ UNCHANGED <<caches, tracking_enabled, registry, clan_metric_history, now,
                 pc, todo, metric_key, rows, player_rows_cache, alert_count,
                 counters, awaited, last, sends, last_cmd, trend_embed>>
  /\ UNCHANGED <<cycle_log, toggles, tasks, user_links, workers, obs_log,
                 channel>>

NextParse == \E data \in Responses : ParseResponse(data)

SpecParse == Init /\ [][NextParse]_vars

\* ------------------------------------------------------------------- C31
\* The entries of a response of the shape {data: {entries: [...]}}.
HasKey(obj, key) == obj.t = "dict" /\ \E i \in DOMAIN obj.v : obj.v[i][1] = key

ExpectedShape(data) ==
  /\ HasKey(data, "data")
  /\ HasKey(dict_get(data.v, "data"), "entries")
  /\ dict_get(dict_get(data.v, "data").v, "entries").t = "list"

EntriesOf(data) == dict_get(dict_get(data.v, "data").v, "entries").v

\* C31: parse_leaderboard_rows returns the entries of a response of the
\* expected shape in their order and count, returns the empty list for
\* every other response, and never raises; the error response of a failed
\* fetch parses to the empty list.
C31_ParseRowsOrEmpty ==
  /\ parsed.raised = "none"
  /\ IF ExpectedShape(parsed.data) THEN parsed.rows = EntriesOf(parsed.data)
     ELSE parsed.rows = <<>>
  /\ parsed.data = ErrorResponse => parsed.rows = <<>>

\* The part of C31 that holds: the entries of the expected shape are
\* returned as they are, nothing raises, and a response without data or
\* without entries, or whose entries cannot be iterated, gives no rows.
ParseRowsOfLists ==
  /\ parsed.raised = "none"
  /\ ExpectedShape(parsed.data) => parsed.rows = EntriesOf(parsed.data)
  /\ parsed.data = ErrorResponse => parsed.rows = <<>>
  /\ parsed.rows # <<>> =>
       /\ HasKey(parsed.data, "data")
       /\ HasKey(dict_get(parsed.data.v, "data"), "entries")
       /\ dict_get(dict_get(parsed.data.v, "data").v, "entries").t
            \in {"list", "dict", "text"}

\* ---------------------------------------------------------------- user ids
\* link_user(discord_id, steam_id): INSERT ... ON CONFLICT(discord_id) DO
\* UPDATE SET steam_id.
link_user(table, discord_id, steam_id) ==
  [u \in (DOMAIN table) \cup {discord_id} |->
     IF u = discord_id THEN steam_id ELSE table[u]]

\* /link steam_id by user: refused for an invalid id, else
\* link_user(interaction.user.id, cleaned).
Link(user, steam_id) ==
  /\ pc = "idle" \/ awaited
  /\ LET cleaned == strip(steam_id)
     IN user_links' = IF ~is_valid_steam_id(cleaned) THEN user_links
                      ELSE link_user(user_links, user, cleaned)
  /\ last_cmd' = [op |-> "link", arg |-> steam_id, user |-> user,
                  clans |-> watch_clans, players |-> watch_players,
                  raised |-> FALSE]
  /\ UNCHANGED <<caches, tracking_enabled, registry, clan_metric_history, now,
                 pc, todo, metric_key, rows, player_rows_cache, alert_count,
                 counters, awaited, last, sends, trend_embed>>
  /\ UNCHANGED <<cycle_log, toggles, tasks, parsed, workers, obs_log, channel>>

\* The Discord users and the ids they give: blank, padded, valid, with a
\* letter, too short, too long, and of superscript digits.
Users == {"u1", "u2"}

IdInputs ==
  {Blank, P72Padded, P73, <<"7", "x">>, <<"7">>, <<"7", "3", "1">>,
   <<Sup2, Sup2>>, <<" ", "7", Sup2>>}

NextIds ==
  \/ \E user \in Users : \E steam_id \in IdInputs : Link(user, steam_id)
  \/ \E steam_id \in IdInputs \cup {NoStr} : TrackPlayer(steam_id)
  \/ \E steam_id \in IdInputs \cup {NoStr} : UntrackPlayer(steam_id)

SpecIds == Init /\ [][NextIds]_vars

\* ------------------------------------------------------------------- C32
\* Exactly STEAM_ID_LEN decimal digits (17 in the source).
DecimalId(s) == Len(s) = STEAM_ID_LEN /\ \A i \in DOMAIN s : s[i] \in Digits

\* The step is the command op.
CommandStep(op) == last_cmd' # last_cmd /\ last_cmd'.op = op

\* C32: /link and /trackplayer accept a steam id iff, stripped, it consists
\* of exactly 17 decimal digits; they leave user_links and watch_players
\* unchanged when it is not accepted and store the stripped id when it is.
C32_SteamIdAcceptedIff ==
  [][/\ CommandStep("link") =>
          LET cleaned == strip(last_cmd'.arg)
          IN IF DecimalId(cleaned)
             THEN user_links' = link_user(user_links, last_cmd'.user, cleaned)
             ELSE user_links' = user_links
     /\ CommandStep("trackplayer") =>
          LET cleaned == strip(last_cmd'.arg)
          IN IF DecimalId(cleaned)
             THEN /\ Rows(watch_players') = Rows(watch_players) \cup {cleaned}
                  /\ NoDuplicates(watch_players')
             ELSE watch_players' = watch_players]_vars

\* The same with "digit" read as str.isdigit() reads it.
SteamIdAcceptedIffIsdigit ==
  [][/\ CommandStep("link") =>
          LET cleaned == strip(last_cmd'.arg)
          IN IF isdigit(cleaned) /\ Len(cleaned) = STEAM_ID_LEN
             THEN user_links' = link_user(user_links, last_cmd'.user, cleaned)
             ELSE user_links' = user_links
     /\ CommandStep("trackplayer") =>
          LET cleaned == strip(last_cmd'.arg)
          IN IF isdigit(cleaned) /\ Len(cleaned) = STEAM_ID_LEN
             THEN /\ Rows(watch_players') = Rows(watch_players) \cup {cleaned}
                  /\ NoDuplicates(watch_players')
             ELSE watch_players' = watch_players]_vars

\* ------------------------------------------------------------------- C33
\* The sends the events of a consumer call attempted.
AttemptsOf(events) ==
  Cardinality({i \in DOMAIN events : events[i].attempted})

\* C33: for every metric that has a threshold and returned rows the cycle
\* calls log_top_and_detect_spikes with those rows, whatever the tracking
\* flag and the registry are: the call appends its snapshots, writes the
\* spike cache and attempts its alerts.
C33_SpikesWhateverTheFlag ==
  [][CycleStep /\ pc = "spikes" /\ metric_key \in DOMAIN ALERT_THRESHOLDS
       => /\ rows # <<>>
          /\ last'.op = "spike"
          /\ last'.ts = now
          /\ last'.metric_key = metric_key
          /\ last'.rows = rows
          /\ last'.pre = LAST_CLAN_METRIC_VALUES
          /\ clan_metric_history' = clan_metric_history \o last'.snaps
          /\ \A i \in DOMAIN last'.events :
               last'.events[i].key \in DOMAIN LAST_CLAN_METRIC_VALUES'
          /\ sends'.attempted = sends.attempted + AttemptsOf(last'.events)]_vars

\* A cycle that began with tracking disabled and has it disabled still
\* appended snapshots, changed the spike cache and delivered a spike alert.
C33_Witness ==
  /\ ~tracking_enabled
  /\ ~cycle_log.flag
  /\ toggles = 0
  /\ pc = "clan_watch"
  /\ last.op = "spike"
  /\ last.ts = now
  /\ last.snaps # <<>>
  /\ LAST_CLAN_METRIC_VALUES # last.pre
  /\ \E i \in DOMAIN last.events : last.events[i].delivered

\* ------------------------------------------------------------------- C34
\* C34: within a cycle every snapshot is appended and every alert is sent
\* before the leaderboard view is delivered, the leaderboard view is
\* delivered before the trend view is computed, and the trend view is
\* computed from the log as it is then, which holds every snapshot of the
\* cycle.
C34_SnapshotsThenViews ==
  [][CycleStep =>
       /\ (clan_metric_history' # clan_metric_history \/ sends' # sends)
            => cycle_log.views = NoViews /\ cycle_log'.views = NoViews
       /\ cycle_log'.views.leaderboard # cycle_log.views.leaderboard
            => /\ cycle_log.views = NoViews
               /\ todo = {}
               /\ trend_embed' = trend_embed
       /\ (trend_embed' # trend_embed
             \/ cycle_log'.views.trend # cycle_log.views.trend)
            => /\ cycle_log.views.leaderboard \in {"delivered", "resent"}
               /\ clan_metric_history' = clan_metric_history
               /\ trend_embed'.at = now
               /\ trend_embed'.seen = Len(clan_metric_history)]_vars

\* A cycle that appended snapshots and sent an alert ended with both views
\* delivered, the trend view computed from the whole log.
C34_Witness ==
  /\ CycleEnded
  /\ \E m \in DOMAIN METRICS : SnapshotsOf(m) # {}
  /\ sends.attempted > 0
  /\ cycle_log.views.leaderboard = "delivered"
  /\ cycle_log.views.trend = "delivered"
  /\ trend_embed.at = now
  /\ trend_embed.seen = Len(clan_metric_history)

\* ----------------------------------------------------------------- overlap
\* The consumer calls of poll cycles that overlap (on_ready's cycle and the
\* loop's, see C25), observation by observation.  A call gives way to the
\* other tasks only in the await of a send; a task runs from its
\* resumption to its next await with nothing in between.
\*
\* The key a consumer of the model works on.  A call makes up to
\* OverlapLen observations of it, one for each row that carries the key; a
\* task keeps the number of them it has still to make.
OverlapKey(op) ==
  CASE op = "spike" -> <<"looted_hackable", Ze>>
    [] op = "clan" -> <<"looted", ze, "looted_hackablecrate">>
    [] op = "player" -> <<"looted", P72, "looted_crate">>

OverlapOps == {"spike", "clan", "player"}

OverlapValues == {1, 3}

\* The value a task reads from a copy of the cache it made when its call
\* began.
cached_at_call(cache, seen) == seen

\* last_val = CACHE.get(cache_key): the cache as it is when the loop body
\* runs, in the statement before the write.
cached_now(cache, seen) == cache

DeltaOf(op, has, last_val, current_val) ==
  CASE op = "spike" -> spike_delta(has, last_val, current_val)
    [] op = "clan" -> clan_delta(has, last_val, current_val)
    [] op = "player" -> player_delta(has, last_val, current_val)

DueOf(op, delta, key) ==
  CASE op = "spike" -> spike_alert_due(delta, ALERT_THRESHOLDS[key[1]], key[2])
    [] op = "clan" -> clan_alert_due(delta)
    [] op = "player" -> player_alert_due(delta)

NoWorkerRuns == \A w \in Workers : workers[w].pc # "run"

\* The record of the observations of a key after one more of them.
Noted(per, key, current_val, delta) ==
  IF key \in DOMAIN per
  THEN [per EXCEPT ![key] = [first |-> @.first, sum |-> @.sum + delta]]
  ELSE Put(per, key, [first |-> current_val, sum |-> delta])

\* The cycle of task w reaches a consumer call.
BeginCall(w, op, n, max_calls) ==
  /\ NoWorkerRuns
  /\ workers[w].pc = "idle"
  /\ obs_log.calls < max_calls
  /\ workers' = [workers EXCEPT ![w] = [pc |-> "run", op |-> op,
                                        todo |-> n,
                                        seen |-> CacheOf(op)]]
  /\ obs_log' = [obs_log EXCEPT !.calls = @ + 1]
  /\ UNCHANGED <<caches, tracking_enabled, registry, clan_metric_history, now,
                 pc, todo, metric_key, rows, player_rows_cache, alert_count,
                 counters, awaited, last, sends, last_cmd, trend_embed>>
  /\ UNCHANGED <<cycle_log, toggles, tasks, user_links, parsed, channel>>

\* One pass of the loop body of the consumer that task w runs: the read of
\* the cached value, the delta, the write, and the send when an alert is
\* due, in whose await the task gives way.  current_val is the value of the
\* row the loop has reached.
ObserveNext(w, current_val) ==
  /\ workers[w].pc = "run"
  /\ LET op == workers[w].op
         key == OverlapKey(op)
         read == cached_now(CacheOf(op), workers[w].seen)
         has == key \in DOMAIN read
         last_val == IF has THEN read[key] ELSE 0
         delta == DeltaOf(op, has, last_val, current_val)
         due == DueOf(op, delta, key)
         rest == workers[w].todo - 1
     IN /\ LAST_CLAN_METRIC_VALUES' =
             IF op = "spike" THEN Put(LAST_CLAN_METRIC_VALUES, key, current_val)
             ELSE LAST_CLAN_METRIC_VALUES
        /\ WATCH_CLAN_LAST_VALUES' =
             IF op = "clan" THEN Put(WATCH_CLAN_LAST_VALUES, key, current_val)
             ELSE WATCH_CLAN_LAST_VALUES
        /\ WATCH_PLAYER_LAST_VALUES' =
             IF op = "player" THEN Put(WATCH_PLAYER_LAST_VALUES, key, current_val)
             ELSE WATCH_PLAYER_LAST_VALUES
        /\ workers' =
             [workers EXCEPT ![w] =
                IF due THEN [@ EXCEPT !.pc = "send", !.todo = rest,
                                      !.seen = Put(@, key, current_val)]
                ELSE IF rest = 0 THEN IdleWorker
                ELSE [@ EXCEPT !.todo = rest,
                               !.seen = Put(@, key, current_val)]]
        /\ obs_log' = [obs_log EXCEPT !.per = Noted(@, key, current_val, delta)]
  /\ UNCHANGED <<tracking_enabled, registry, clan_metric_history, now,
                 pc, todo, metric_key, rows, player_rows_cache, alert_count,
                 counters, awaited, last, sends, last_cmd, trend_embed>>
  /\ UNCHANGED <<cycle_log, toggles, tasks, user_links, parsed, channel>>

\* The send task w awaits returns, or raises into the except around it, and
\* the task is resumed.
SendReturns(w) ==
  /\ NoWorkerRuns
  /\ workers[w].pc = "send"
  /\ workers' = [workers EXCEPT ![w] =
                   IF @.todo = 0 THEN IdleWorker ELSE [@ EXCEPT !.pc = "run"]]
  /\ UNCHANGED <<caches, tracking_enabled, registry, clan_metric_history, now,
                 pc, todo, metric_key, rows, player_rows_cache, alert_count,
                 counters, awaited, last, sends, last_cmd, trend_embed>>
  /\ UNCHANGED <<cycle_log, toggles, tasks, user_links, parsed, obs_log,
                 channel>>

NextOverlap ==
  \/ \E w \in Workers : \E op \in OverlapOps : \E n \in 1..OverlapLen :
       BeginCall(w, op, n, OverlapCalls)
  \/ \E w \in Workers : \E current_val \in OverlapValues :
       ObserveNext(w, current_val)
  \/ \E w \in Workers : SendReturns(w)
  \/ NoWorkerRuns /\ Toggle
  \/ NoWorkerRuns /\ \E clan_name \in {Ze} : UntrackClan(clan_name)

SpecOverlap == Init /\ [][NextOverlap]_vars

\* ------------------------------------------------------------------- C35
\* The step is an observation by the consumer op (a task inside a loop body
\* moved), and the delta it computed.
ObservedBy(op) ==
  \E w \in Workers :
    workers[w].pc = "run" /\ workers[w].op = op /\ workers'[w] # workers[w]

DeltaComputed(op) ==
  IF OverlapKey(op) \in DOMAIN obs_log.per
  THEN obs_log'.per[OverlapKey(op)].sum - obs_log.per[OverlapKey(op)].sum
  ELSE obs_log'.per[OverlapKey(op)].sum

\* C35: whatever the interleaving of overlapping cycles and commands, an
\* observation of a key computes its delta from the value the observation
\* of that key just before it stored (so no two of them from the same
\* stored value), the first one computes 0, and the deltas of a key after
\* its first observation add up to its latest cached value minus its first
\* observed value.
C35_DeltasTelescope ==
  /\ [](\A key \in DOMAIN obs_log.per :
         \E op \in OverlapOps :
           /\ key = OverlapKey(op)
           /\ key \in DOMAIN CacheOf(op)
           /\ obs_log.per[key].sum = CacheOf(op)[key] - obs_log.per[key].first)
  /\ [][\A op \in OverlapOps :
          ObservedBy(op) =>
            LET key == OverlapKey(op)
            IN IF key \in DOMAIN CacheOf(op)
               THEN /\ key \in DOMAIN obs_log.per
                    /\ DeltaComputed(op) = CacheOf(op)'[key] - CacheOf(op)[key]
               ELSE /\ key \notin DOMAIN obs_log.per
                    /\ DeltaComputed(op) = 0]_vars

\* Two calls overlap on one key: while one of them awaits the send of its
\* alert, the other task observes the key, finds an increase over the
\* value the first one stored and awaits the send of its own alert.
C35_Witness ==
  \E w, o \in Workers :
    /\ w # o
    /\ workers[o].pc = "send"
    /\ workers[w].pc = "send"
    /\ workers[w].op = workers[o].op
    /\ workers[o].todo > 0
    /\ obs_log.per[OverlapKey(workers[o].op)].sum > 0

\* ------------------------------------------------------------------- C36
\* The alert of observation i of the last call was attempted and its send
\* raised.
AlertLost(i) == last.events[i].attempted /\ ~last.events[i].delivered

\* The step is a consumer call.
ConsumerCall == last' # last /\ last'.op \in {"spike", "clan", "player"}

\* C36: the value of an observation is in the cache before the send of its
\* alert is attempted, so a send that raised is not attempted again.  A
\* consumer call attempts exactly one send for each observation with an
\* alert due and none for the others; an observation whose send raised
\* has stored its value all the same; the next observation of the key, in
\* the same call or in a later one (which starts from the cache the calls
\* before it left), finds that value and measures its delta from it.
C36_LostAlertNotRetried ==
  /\ [](last.op \in {"spike", "clan", "player"} =>
         \A i \in DOMAIN last.events :
           /\ LastOf(i) = i =>
                /\ last.events[i].key \in DOMAIN CacheOf(last.op)
                /\ CacheOf(last.op)[last.events[i].key] = last.events[i].cur
           /\ last.events[i].had <=> SeenBefore(i)
           /\ last.events[i].had => last.events[i].last = Prior(i)
           /\ Earlier(i) # {} /\ AlertLost(Max(Earlier(i))) =>
                /\ last.events[i].last = last.events[Max(Earlier(i))].cur
                /\ last.events[i].delta
                     = last.events[i].cur - last.events[Max(Earlier(i))].cur)
  /\ [][ConsumerCall =>
          /\ last'.pre = CacheOf(last'.op)
          /\ sends'.attempted - sends.attempted
               = Cardinality({i \in DOMAIN last'.events :
                                last'.events[i].attempted})
          /\ sends'.failed - sends.failed
               = Cardinality({i \in DOMAIN last'.events :
                                /\ last'.events[i].attempted
                                /\ ~last'.events[i].delivered})]_vars

\* The send of the alert of an observation raised, and the next observation
\* of the same key, in the same call and with the same value, found the
\* value of the lost alert stored, computed delta 0 and attempted no send.
C36_Witness ==
  /\ last.op \in {"spike", "clan", "player"}
  /\ \E i \in DOMAIN last.events :
       /\ Earlier(i) # {}
       /\ AlertLost(Max(Earlier(i)))
       /\ last.events[i].cur = last.events[Max(Earlier(i))].cur
       /\ last.events[i].last = last.events[i].cur
       /\ last.events[i].delta = 0
       /\ ~last.events[i].attempted
       /\ sends.failed = sends.attempted

\* ------------------------------------------------------------ interruptions
\* Poll cycles on a leaderboard that grows, with the commands that
\* interrupt the watching between them and inside their awaits: /untrack
\* and /track of a clan, /untrackplayer and /trackplayer of a player, the
\* toggle of the tracking flag, and the restart of the process.
InterruptBatches ==
  {LowBatch("looted_hackablecrate"), HighBatch("looted_hackablecrate")}

InterruptPlayerRows ==
  { << PlayerRow(P72, Ze, Num(1), << <<"looted_crate", Num(v)>> >>) >> :
      v \in {1, 3} }

NextInterrupt ==
  \/ StartCycle(RegistryMETRICS, InterruptCycles)
  \/ \E batch \in InterruptBatches :
       FetchRows("looted_hackable", batch, InterruptCycles)
  \/ DetectSpikes(RegistryMETRICS, ALERT_THRESHOLDS, {})
  \/ WatchClans(RegistryMETRICS, {})
  \/ SkipWatchClans
  \/ \E fetched \in InterruptPlayerRows :
       WatchPlayers(RegistryMETRICS, fetched, {})
  \/ SkipWatchPlayers
  \/ FinishCycle(RegistryMETRICS)
  \/ Toggle
  \/ TrackClan(Ze)
  \/ UntrackClan(Ze)
  \/ TrackPlayer(P72)
  \/ UntrackPlayer(P72)
  \/ \E clan_names \in Orderings(settings_watch_clan_names),
        player_ids \in Orderings(settings_watch_player_ids) :
       Restart(clan_names, player_ids)

SpecInterrupt == Init /\ [][NextInterrupt]_vars

\* ------------------------------------------------------------------- C37
\* The step is a call of the consumer op, and it observed key.
ObservedIn(op, key) ==
  /\ last' # last
  /\ last'.op = op
  /\ \E i \in DOMAIN last'.events : last'.events[i].key = key

\* The step leaves the process as a start leaves it.
StartsAfresh ==
  /\ last_cmd'.op = "restart"
  /\ last' = NoCall
  /\ cycle_log' = NoLog
  /\ ~tracking_enabled'
  /\ pc' = "idle"
  /\ \A op \in {"spike", "clan", "player"} : CacheOf(op)' = EmptyCache

\* The step is a command that changes a watch registry or the tracking
\* flag.
Interrupts ==
  \/ watch_clans' # watch_clans /\ last_cmd'.op \in {"track", "untrack"}
  \/ watch_players' # watch_players
       /\ last_cmd'.op \in {"trackplayer", "untrackplayer"}
  \/ toggles' # toggles

\* C37: only a restart removes or resets an entry of a last-value cache.
\* Any other step keeps every entry, and changes the value of one only by
\* a call of its consumer that observed its key; the commands that change
\* a registry or the tracking flag leave the three caches as they are.
C37_CachesOutliveInterruptions ==
  [][/\ Interrupts /\ ~StartsAfresh => UNCHANGED caches
     /\ ~StartsAfresh =>
          \A op \in {"spike", "clan", "player"} :
            /\ \A key \in DOMAIN CacheOf(op) :
                 /\ key \in DOMAIN CacheOf(op)'
                 /\ CacheOf(op)'[key] # CacheOf(op)[key] => ObservedIn(op, key)
            /\ \A key \in DOMAIN CacheOf(op)' :
                 key \notin DOMAIN CacheOf(op) => ObservedIn(op, key)]_vars

\* The last command added the clan ze to a registry that did not hold it,
\* and the clan watch that ran after it found, in its first observation of
\* a key of ze, a value stored while ze was watched before, and attempted
\* an alert for the increase over it.
C37_Witness ==
  /\ last_cmd.op = "track"
  /\ ze \notin Rows(last_cmd.clans)
  /\ ze \in get_watch_clans
  /\ last.op = "clan"
  /\ \E i \in DOMAIN last.events :
       /\ last.events[i].key[2] = ze
       /\ Earlier(i) = {}
       /\ last.events[i].had
       /\ last.events[i].delta > 0
       /\ last.events[i].attempted
       /\ last.events[i].last = last.pre[last.events[i].key]

\* -------------------------------------------------------------------- group
\* Poll cycles over the two metrics of the group "looted", whose player
\* leaderboard is fetched once a cycle and handed to the player watch once
\* for every metric, with the toggle and the player commands inside the
\* awaits of the cycle.  No two rows of a response carry the same steam id.
GroupPlayerRows ==
  { << PlayerRow(P71, NoStr, Num(1), << <<"looted_crate", Num(v)>> >>),
       PlayerRow(P72, Ze, Num(2), << <<"looted_crate", Num(v)>> >>) >> :
      v \in {1, 3} }

NextGroup ==
  \/ StartCycle(METRICS, GroupCycles)
  \/ \E m \in DOMAIN METRICS :
       FetchRows(m, LowBatch(METRICS[m].sortBy), 2 * GroupCycles)
  \/ DetectSpikes(METRICS, ALERT_THRESHOLDS, {})
  \/ SkipSpikes(ALERT_THRESHOLDS)
  \/ WatchClans(METRICS, {})
  \/ SkipWatchClans
  \/ PlayerFetchRaises(METRICS)
  \/ \E fetched \in GroupPlayerRows : \E fail \in FailSets(1) :
       WatchPlayers(METRICS, fetched, fail)
  \/ SkipWatchPlayers
  \/ FinishCycle(METRICS)
  \/ Toggle
  \/ TrackPlayer(P72)
  \/ UntrackPlayer(P72)

SpecGroup == Init /\ [][NextGroup]_vars

\* ------------------------------------------------------------------- C38
\* No two rows carry the same steam id.
DistinctIds(prows) ==
  \A i, j \in DOMAIN prows : IdOf(prows[i]) = IdOf(prows[j]) => i = j

\* The step is a run of the player watch on the rows an earlier run of the
\* cycle has fetched.
LaterRun ==
  /\ CycleStep
  /\ WatchCall("player")
  /\ last'.group \in DOMAIN player_rows_cache

\* C38 as stated: every run of the player watch after the first of the
\* cycle sees the same cached rows, computes delta 0 for whatever it
\* observes and attempts no send.
C38_LaterRunsComputeZero ==
  [][LaterRun =>
       /\ last'.rows = player_rows_cache[last'.group]
       /\ player_rows_cache' = player_rows_cache
       /\ DistinctIds(last'.rows) =>
            /\ sends'.attempted = sends.attempted
            /\ \A i \in DOMAIN last'.events :
                 last'.events[i].delta = 0 /\ ~last'.events[i].attempted]_vars

\* C38, amended: in one poll cycle the player watch attempts at most one
\* alert for a key.  Every run of the cycle after the first for the group
\* works on the same cached rows; when no two rows carry the same steam id,
\* a run observes every key at most once, and for a key an earlier run of
\* the cycle has observed it finds the value of the rows stored, computes
\* delta 0 and attempts no send.  A key no earlier run of the cycle has
\* observed (a player added to the registry during the cycle) is measured
\* against whatever an earlier cycle stored for it.
C38_OnePlayerAlertPerCycle ==
  [][CycleStep /\ WatchCall("player") =>
       /\ IF last'.group \in DOMAIN player_rows_cache
          THEN /\ last'.rows = player_rows_cache[last'.group]
               /\ player_rows_cache' = player_rows_cache
          ELSE /\ player_rows_cache'[last'.group] = last'.rows
               /\ cycle_log.player_keys = {}
       /\ cycle_log'.player_keys
            = cycle_log.player_keys
                \cup {last'.events[i].key : i \in DOMAIN last'.events}
       /\ DistinctIds(last'.rows) =>
            \A i \in DOMAIN last'.events :
              /\ \A j \in DOMAIN last'.events :
                   last'.events[i].key = last'.events[j].key => i = j
              /\ last'.events[i].key \in cycle_log.player_keys =>
                   /\ last'.events[i].had
                   /\ last'.events[i].last = last'.events[i].cur
                   /\ last'.events[i].delta = 0
                   /\ ~last'.events[i].attempted]_vars

\* The second run of the player watch in a cycle, on the cached rows: the
\* first run attempted an alert for the key of the player 71, and the
\* second run computed delta 0 for it; the player 72, added to the registry
\* after the first run, was observed for the first time in the cycle.
C38_Witness ==
  /\ last.op = "player"
  /\ last.metric_key \in DOMAIN METRICS
  /\ cycle_log.player_fetches["looted"] = 1
  /\ Cardinality(cycle_log.leaderboard) = 2
  /\ DistinctIds(last.rows)
  /\ sends.attempted = 2
  /\ last_cmd.op = "trackplayer"
  /\ P72 \notin Rows(last_cmd.players)
  /\ \E i, j \in DOMAIN last.events :
       /\ last.events[i].key = <<"looted", P71, "looted_crate">>
       /\ last.events[i].had
       /\ last.events[i].delta = 0
       /\ last.events[i].cur = 3
       /\ last.events[j].key = <<"looted", P72, "looted_crate">>
       /\ last.events[j].attempted

\* ------------------------------------------------------------------- C39
\* The positions of rows[:TREND_TOP_N] in the rows of the last call.
TopPositions == {p \in DOMAIN last.rows : p <= TREND_TOP_N}

\* The row at position p carries the clan and the sort-field value given.
RowGives(p, clan_name, value) ==
  /\ NameOf(last.rows[p]) = clan_name
  /\ IsNumeric(dict_get(last.rows[p].stats, last.sort_by))
  /\ dict_get(last.rows[p].stats, last.sort_by).v = value

\* C39: a call of the spike detector appends at most TREND_TOP_N snapshots,
\* never more than one for each of the first TREND_TOP_N rows; each of its
\* snapshots, each of its observations (a cache write, with or without an
\* alert) and each cache entry it created or changed carries the clan and
\* the value of a row at a position from 1 to TREND_TOP_N.  A row at a
\* later position causes nothing, also when rows before it were skipped
\* as malformed.
C39_OnlyTopRowsCount ==
  last.op = "spike" =>
    /\ Len(last.snaps) <= TREND_TOP_N
    /\ Len(last.snaps) = Cardinality(SpikeRows)
    /\ Len(last.events) <= Len(last.snaps)
    /\ \A i \in DOMAIN last.snaps :
         \E p \in TopPositions :
           RowGives(p, last.snaps[i].clan_name, last.snaps[i].value)
    /\ \A i \in DOMAIN last.events :
         /\ last.events[i].key[1] = last.metric_key
         /\ \E p \in TopPositions :
              RowGives(p, last.events[i].key[2], last.events[i].cur)
    /\ \A key \in DOMAIN LAST_CLAN_METRIC_VALUES :
         (key \notin DOMAIN last.pre
            \/ LAST_CLAN_METRIC_VALUES[key] # last.pre[key]) =>
           /\ key[1] = last.metric_key
           /\ \E p \in TopPositions :
                RowGives(p, key[2], LAST_CLAN_METRIC_VALUES[key])

\* A leaderboard of six rows whose first four are malformed: the call
\* logged the row at position 5 alone and stored its value, and the row at
\* position 6, well-formed and with a higher value for the same clan,
\* caused no snapshot, no cache write and no alert.
C39_Witness ==
  /\ last.op = "spike"
  /\ Len(last.rows) = TREND_TOP_N + 1
  /\ \E p \in TopPositions : p \notin SpikeRows
  /\ NameOf(last.rows[TREND_TOP_N + 1]) # <<>>
  /\ IsNumeric(dict_get(last.rows[TREND_TOP_N + 1].stats, last.sort_by))
  /\ Len(last.snaps) = 1
  /\ Len(last.events) = 1
  /\ last.events[1].cur
       < dict_get(last.rows[TREND_TOP_N + 1].stats, last.sort_by).v
  /\ LAST_CLAN_METRIC_VALUES[last.events[1].key] = last.events[1].cur
  /\ ~last.events[1].attempted

\* ------------------------------------------------------------------ channel
\* Poll cycles of one metric while the channel the configuration names
\* comes and goes: it is deleted or leaves the cache, or the id names a
\* channel that cannot take messages.
ChannelChanges(kind) ==
  /\ pc = "idle"
  /\ kind # channel.kind
  /\ channel' = [channel EXCEPT !.kind = kind]
  /\ UNCHANGED <<caches, tracking_enabled, registry, clan_metric_history, now,
                 pc, todo, metric_key, rows, player_rows_cache, alert_count,
                 counters, awaited, last, sends, last_cmd, trend_embed>>
  /\ UNCHANGED <<cycle_log, toggles, tasks, user_links, parsed, workers,
                 obs_log>>

\* post_walobots_update is called and the channel is None or not
\* messageable: an error is logged and the call returns.
ChannelUnusable(max_calls) ==
  /\ pc = "idle"
  /\ suspended = NoTask
  /\ ~channel_usable(channel.kind)
  /\ channel.stopped < max_calls
  /\ channel' = [channel EXCEPT !.stopped = @ + 1, !.stopped_at = now]
  /\ UNCHANGED <<caches, tracking_enabled, registry, clan_metric_history, now,
                 pc, todo, metric_key, rows, player_rows_cache, alert_count,
                 counters, awaited, last, sends, last_cmd, trend_embed>>
  /\ UNCHANGED <<cycle_log, toggles, tasks, user_links, parsed, workers,
                 obs_log>>

NextChannel ==
  \/ \E kind \in ChannelKinds : ChannelChanges(kind)
  \/ ChannelUnusable(ChannelCycles)
  \/ StartCycle(RegistryMETRICS, ChannelCycles)
  \/ \E batch \in InterruptBatches :
       FetchRows("looted_hackable", batch, ChannelCycles)
  \/ DetectSpikes(RegistryMETRICS, ALERT_THRESHOLDS, {})
  \/ WatchClans(RegistryMETRICS, {})
  \/ SkipWatchClans
  \/ WatchPlayers(RegistryMETRICS, RegistryPlayerRows, {})
  \/ SkipWatchPlayers
  \/ FinishCycle(RegistryMETRICS)
  \/ Toggle

SpecChannel == Init /\ [][NextChannel]_vars

\* ------------------------------------------------------------------- C40
\* The step is a call of post_walobots_update: one that enters the loop or
\* one that the channel stopped.
PollCall == cycles' # cycles \/ channel'.stopped # channel.stopped

\* C40: a call of post_walobots_update that finds the channel unresolved or
\* not messageable returns at once and leaves everything as it is: it
\* starts no cycle and fetches no leaderboard, appends no snapshot, writes
\* no cache entry, attempts no send and builds no view.  Only a call that
\* finds a messageable channel enters the loop over the metrics.
C40_NoChannelNoCycle ==
  [][PollCall =>
       IF channel.kind \in {"none", "category"}
       THEN /\ channel'.stopped = channel.stopped + 1
            /\ pc' = "idle"
            /\ UNCHANGED <<caches, clan_metric_history, player_rows_cache,
                           counters, sends, alert_count, last, trend_embed,
                           cycle_log, registry, tracking_enabled, todo, rows,
                           metric_key, now>>
       ELSE /\ channel' = channel
            /\ cycles' = cycles + 1
            /\ pc' = "loop"]_vars

\* After a cycle that stored values and appended snapshots the channel
\* became unusable, and the call that followed was stopped by it: one
\* cycle was started, one leaderboard fetched, and log and caches are the
\* ones that cycle left.
C40_Witness ==
  /\ channel.kind \in {"none", "category"}
  /\ channel.stopped = 1
  /\ channel.stopped_at = 1
  /\ now = 1
  /\ pc = "idle"
  /\ cycles = 1
  /\ fetches = 1
  /\ clan_metric_history # <<>>
  /\ DOMAIN LAST_CLAN_METRIC_VALUES # {}
  /\ "looted_hackable" \in cycle_log.leaderboard

====
